---- MODULE Spec2Model ----
(***************************************************************************)
(* Session backend (amux adapter), its per-session nudge lock registry,    *)
(* the health classifier and the witness supervisor of gastown.            *)
(*                                                                         *)
(* The amux daemon and its CLI are external: the daemon is modelled as the *)
(* table of sessions it hosts, the CLI as the reply (exit status, stderr,  *)
(* stdout) it gives for a subcommand in the daemon's current state.        *)
(***************************************************************************)
EXTENDS Integers, Sequences, FiniteSets, TLC

(***************************************************************************)
(* Bounds of the model.                                                    *)
(***************************************************************************)
\* idle time of a session is counted in ticks 0..MaxIdle
MaxIdle == 2
\* number of concurrent callers of the nudge lock
NumProcs == 2
\* longest timeout (in ticks) a direct caller of acquireNudgeLock passes
MaxTimeout == 2
\* number of concurrent Manager.Start invocations
NumStarters == 2
\* longest process environment (number of strings) given to buildEnv
MaxEnviron == 3

\* session identifiers; "w" is the witness session (Manager.SessionName)
Names == {"w", "s2"}
Procs == 1..NumProcs
Starters == 1..NumStarters

\* nudgeLockTimeout = 30 * time.Second, counted in ticks of 15 s
nudgeLockTimeout == 2

VARIABLES
    daemonUp,           \* the amux daemon is running and reachable
    sessions,           \* daemon state: name -> [command, alive, idle]
    flaky,              \* the CLI may also fail with an unclassified error
    everCreated,        \* history: the names a create has succeeded for
    ret,                \* the call that returned last: [op, name, val, err]
    sessionNudgeLocks,  \* sync.Map: session name -> channel
    chanLen,            \* channel -> number of buffered elements (cap 1)
    pc,                 \* position of each nudge-lock caller
    psess,              \* session the caller works on
    psem,               \* channel the caller obtained from the registry
    ptimeout,           \* timeout the caller passed to acquireNudgeLock
    waited,             \* ticks the caller has been blocked in select
    pret,               \* result of the caller's last call
    backendKind,        \* session.NewBackend(): "amux" or "tmux"
    spc,                \* position of each Manager invocation (Start, Stop, Status)
    sret,               \* result of each Manager invocation
    senv,               \* environment sources of each Start: [base, role, overrides]
    wcall,              \* the last call of wrapError: its arguments and its result
    args,               \* the arguments of the call that returned last, as strings
    cerr,               \* the error value of that call: [is, op, args]
    benv,               \* the call of buildEnv: [called, environ, env, result]
    osEnv,              \* os.Getenv("GT_SESSION_BACKEND"), a sequence of characters
    amuxFactory         \* session.amuxFactory is not nil

daemonVars == <<daemonUp, sessions, flaky, everCreated>>
lockVars == <<sessionNudgeLocks, chanLen, pc, psess, psem, ptimeout, waited, pret>>
startVars == <<backendKind, spc, sret, senv>>
callVars == <<wcall, args, cerr, benv, osEnv, amuxFactory>>
vars == <<daemonUp, sessions, flaky, everCreated, ret, sessionNudgeLocks, chanLen, pc, psess,
          psem, ptimeout, waited, pret, backendKind, spc, sret, senv, wcall,
          args, cerr, benv, osEnv, amuxFactory>>

(***************************************************************************)
(* The amux CLI.  A reply is [exit, stderr, out]; stderr is the set of     *)
(* known phrases the text contains, "other" standing for any further text. *)
(***************************************************************************)
Keys == {"GT_ROLE"}
Values == {"witness", "polecat"}
\* environment maps: a function from some of the keys to values
EnvMaps == UNION {[K -> Values] : K \in SUBSET Keys}
NoEnv == [k \in {} |-> "witness"]

\* SessionInfo of a session the daemon does not host (zero value)
NoSession == [command |-> "", alive |-> FALSE, idle |-> 0, env |-> NoEnv]

Exists(n) == n \in DOMAIN sessions

Ok(out) == [exit |-> 0, stderr |-> {}, out |-> out]
Fail(stderr) == [exit |-> 1, stderr |-> stderr, out |-> NoSession]

\* Reply of `amux <sub> -t n` in the current daemon state.
Reply(sub, n) ==
    IF ~daemonUp THEN Fail({"daemon not running"})
    ELSE CASE sub = "new"  -> IF Exists(n) THEN Fail({"already exists"}) ELSE Ok(NoSession)
           [] sub = "has"  -> IF Exists(n) THEN Ok(NoSession) ELSE Fail({})
           [] sub = "info" -> IF Exists(n) THEN Ok(sessions[n]) ELSE Fail({"not found"})
           [] OTHER        -> IF Exists(n) THEN Ok(NoSession) ELSE Fail({"not found"})

\* output of `amux info --json` that json.Unmarshal rejects
NotJSON == [command |-> "not json", alive |-> TRUE, idle |-> 0, env |-> NoEnv]

\* The replies the CLI can give: the one its contract states, or, when the
\* tool is flaky, a failure with text the adapter does not know or, for
\* `info`, output that is no JSON.
Replies(sub, n) ==
    {Reply(sub, n)}
        \cup (IF flaky THEN {Fail({"other"}), Fail({"connection refused"})} ELSE {})
        \cup (IF flaky /\ sub = "info" THEN {Ok(NotJSON)} ELSE {})

\* the phrases wrapError looks for in stderr
DaemonPhrases == {"daemon not running", "connection refused", "no such file or directory"}
NotFoundPhrases == {"not found", "no such session"}
Phrases == DaemonPhrases \cup {"already exists"} \cup NotFoundPhrases

\* strings.TrimSpace
TrimSpace(stderr) == stderr \ {" "}

\* wrapError that looks for "already exists" first
wrapError_ExistsFirst(stderr) ==
    IF "already exists" \in stderr
    THEN "ErrSessionExists"
    ELSE IF DaemonPhrases \cap stderr # {}
    THEN "ErrNoDaemon"
    ELSE IF NotFoundPhrases \cap stderr # {}
    THEN "ErrSessionNotFound"
    ELSE IF TrimSpace(stderr) # {}
    THEN "amux: stderr"
    ELSE "amux: exit status"

\* wrapError without the "already exists" phrase
wrapError_NoExists(stderr) ==
    IF \/ "daemon not running" \in stderr
       \/ "connection refused" \in stderr
       \/ "no such file or directory" \in stderr
    THEN "ErrNoDaemon"
    ELSE IF "not found" \in stderr \/ "no such session" \in stderr
    THEN "ErrSessionNotFound"
    ELSE IF stderr # {}
    THEN "amux: stderr"
    ELSE "amux: exit status"

wrapError(stderr) ==
    IF \/ "daemon not running" \in stderr
       \/ "connection refused" \in stderr
       \/ "no such file or directory" \in stderr
    THEN "ErrNoDaemon"
    ELSE IF "already exists" \in stderr
    THEN "ErrSessionExists"
    ELSE IF "not found" \in stderr \/ "no such session" \in stderr
    THEN "ErrSessionNotFound"
    ELSE IF TrimSpace(stderr) # {}
    THEN "amux: stderr"
    ELSE "amux: exit status"

\* the error values: a sentinel, or an untyped error with the parts of its
\* text and the error it wraps
Sentinels == {"ErrNoDaemon", "ErrSessionExists", "ErrSessionNotFound"}

\* wrapError that tests the untrimmed stderr for emptiness
wrapErrorValue_NoTrim(err, stderr, argv) ==
    IF wrapError(stderr) \in Sentinels
    THEN [is |-> wrapError(stderr), sub |-> "", stderr |-> {}, wraps |-> "none"]
    ELSE IF stderr # {}
    THEN [is |-> "untyped", sub |-> argv[1], stderr |-> TrimSpace(stderr), wraps |-> "none"]
    ELSE [is |-> "untyped", sub |-> argv[1], stderr |-> {}, wraps |-> err]

\* the error wrapError returns: fmt.Errorf("amux %s: %s", args[0], stderr) for
\* a stderr that is not empty after TrimSpace, fmt.Errorf("amux %s: %w",
\* args[0], err) otherwise
wrapErrorValue(err, stderr, argv) ==
    IF wrapError(stderr) \in Sentinels
    THEN [is |-> wrapError(stderr), sub |-> "", stderr |-> {}, wraps |-> "none"]
    ELSE IF TrimSpace(stderr) # {}
    THEN [is |-> "untyped", sub |-> argv[1], stderr |-> TrimSpace(stderr), wraps |-> "none"]
    ELSE [is |-> "untyped", sub |-> argv[1], stderr |-> {}, wraps |-> err]

\* no call of wrapError yet
NoCall ==
    [err |-> "", stderr |-> {}, args |-> <<"">>,
     result |-> [is |-> "none", sub |-> "", stderr |-> {}, wraps |-> "none"]]

\* a.wrapError(err, stderr, args) is called
WrapErrorCall(err, stderr, argv) ==
    /\ wcall' = [err |-> err, stderr |-> stderr, args |-> argv,
                 result |-> wrapErrorValue(err, stderr, argv)]
    /\ UNCHANGED <<daemonVars, ret, lockVars, startVars>>
    /\ UNCHANGED <<args, cerr, benv, osEnv, amuxFactory>>

\* run: stdout and error of one subprocess, given the CLI's reply
run(reply) ==
    IF reply.exit # 0
    THEN [out |-> NoSession, err |-> wrapError(reply.stderr)]
    ELSE [out |-> reply.out, err |-> "nil"]

\* the record of a returned call: val is a boolean result, status a health status
Ret(op, n, arg, val, status, err) ==
    [op |-> op, name |-> n, arg |-> arg, val |-> val, status |-> status, err |-> err]
NoRet == Ret("none", "", 0, FALSE, "", "nil")

\* the daemon's table after a create that the CLI accepted
Created(n, command, env) ==
    [m \in DOMAIN sessions \cup {n} |->
        IF m = n THEN [command |-> command, alive |-> TRUE, idle |-> 0, env |-> env]
        ELSE sessions[m]]

\* the daemon's table after a kill that the CLI accepted: the whole process
\* tree goes with the session
Killed(n) == [m \in DOMAIN sessions \ {n} |-> sessions[m]]

(***************************************************************************)
(* Amux: the adapter's operations.  Each is one subprocess; the daemon     *)
(* serves it atomically.                                                   *)
(***************************************************************************)
create(op, n, command, env) ==
    \E r \in Replies("new", n) :
        /\ sessions' = IF r.exit = 0 THEN Created(n, command, env) ELSE sessions
        /\ everCreated' = IF r.exit = 0 THEN everCreated \cup {n} ELSE everCreated
        /\ ret' = Ret(op, n, 0, FALSE, "", run(r).err)
        /\ UNCHANGED <<daemonUp, flaky, lockVars, startVars, callVars>>

NewSession(n) == create("NewSession", n, "/bin/zsh", NoEnv)

NewSessionWithCommand(n, command) == create("NewSessionWithCommand", n, command, NoEnv)

NewSessionWithCommandAndEnv(n, command, env) ==
    create("NewSessionWithCommandAndEnv", n, command, env)

\* KillSession that also deletes the session's nudge lock from the registry
kill_DropLock(op, n) ==
    \E r \in Replies("kill", n) :
        /\ sessions' = IF r.exit = 0 THEN Killed(n) ELSE sessions
        /\ sessionNudgeLocks' =
              IF r.exit = 0
              THEN [m \in DOMAIN sessionNudgeLocks \ {n} |-> sessionNudgeLocks[m]]
              ELSE sessionNudgeLocks
        /\ ret' = Ret(op, n, 0, FALSE, "", run(r).err)
        /\ UNCHANGED <<daemonUp, flaky, everCreated, chanLen, pc, psess, psem, ptimeout,
                       waited, pret, startVars, callVars>>

kill(op, n) ==
    \E r \in Replies("kill", n) :
        /\ sessions' = IF r.exit = 0 THEN Killed(n) ELSE sessions
        /\ ret' = Ret(op, n, 0, FALSE, "", run(r).err)
        /\ UNCHANGED <<daemonUp, flaky, everCreated, lockVars, startVars, callVars>>

KillSession(n) == kill("KillSession", n)

\* KillSessionWithProcesses that reports success and kills nothing
KillSessionWithProcesses_Noop(n) ==
    /\ ret' = Ret("KillSessionWithProcesses", n, 0, FALSE, "", "nil")
    /\ UNCHANGED <<daemonVars, lockVars, startVars, callVars>>

KillSessionWithProcesses(n) == kill("KillSessionWithProcesses", n)

\* HasSession that swallows only not-found and no-daemon, and propagates the rest
hasSession_Propagate(r) ==
    IF run(r).err # "nil"
    THEN IF run(r).err \in {"ErrSessionNotFound", "ErrNoDaemon"}
         THEN [val |-> FALSE, err |-> "nil"]
         ELSE [val |-> FALSE, err |-> run(r).err]
    ELSE [val |-> TRUE, err |-> "nil"]

\* HasSession's (bool, error) for a reply of `amux has`; ret.arg records the
\* exit status of the probe
hasSession(r) ==
    IF run(r).err # "nil"
    THEN [val |-> FALSE, err |-> "nil"]
    ELSE [val |-> TRUE, err |-> "nil"]

HasSession(n) ==
    \E r \in Replies("has", n) :
        /\ ret' = Ret("HasSession", n, r.exit, hasSession(r).val, "", hasSession(r).err)
        /\ UNCHANGED <<daemonVars, lockVars, startVars, callVars>>

\* IsAgentAlive's bool for a reply of `amux has`
isAgentAlive(r) == hasSession(r).err = "nil" /\ hasSession(r).val

IsAgentAlive(n) ==
    \E r \in Replies("has", n) :
        /\ ret' = Ret("IsAgentAlive", n, 0, isAgentAlive(r), "", "nil")
        /\ UNCHANGED <<daemonVars, lockVars, startVars, callVars>>

\* the characters of the strings that are searched or searched for
Characters(str) ==
    CASE str = "/bin/zsh" -> <<"/", "b", "i", "n", "/", "z", "s", "h">>
      [] str = "agent"    -> <<"a", "g", "e", "n", "t">>
      [] str = "zsh"      -> <<"z", "s", "h">>
      [] str = "gen"      -> <<"g", "e", "n">>
      [] str = "node"     -> <<"n", "o", "d", "e">>
      [] OTHER            -> <<>>

\* strings.Contains(str, substr)
Contains(str, substr) ==
    \E i \in 1..(Len(Characters(str)) + 1) :
        /\ i + Len(Characters(substr)) - 1 <= Len(Characters(str))
        /\ SubSeq(Characters(str), i, i + Len(Characters(substr)) - 1) = Characters(substr)

\* the expectedPaneCommands a caller passes
ExpectedLists == << <<>>, <<"zsh">>, <<"node">>, <<"node", "gen">>, <<"">> >>

\* GetSessionInfo's (info, err) for a reply of `amux info --json`
getSessionInfo(r) ==
    IF run(r).err # "nil"
    THEN [info |-> NoSession, err |-> run(r).err]
    ELSE IF run(r).out = NotJSON
    THEN [info |-> NoSession, err |-> "amux info: parsing JSON"]
    ELSE [info |-> run(r).out, err |-> "nil"]

\* IsAgentRunning that does not look at info.Alive when a command matches
isAgentRunning_MatchOnly(r, expectedPaneCommands) ==
    IF getSessionInfo(r).err # "nil" THEN FALSE
    ELSE IF Len(expectedPaneCommands) = 0 THEN getSessionInfo(r).info.alive
    ELSE \E i \in 1..Len(expectedPaneCommands) :
            Contains(getSessionInfo(r).info.command, expectedPaneCommands[i])

\* IsAgentRunning's bool for a reply of `amux info --json`
isAgentRunning(r, expectedPaneCommands) ==
    IF getSessionInfo(r).err # "nil" THEN FALSE
    ELSE IF ~getSessionInfo(r).info.alive THEN FALSE
    ELSE IF Len(expectedPaneCommands) = 0 THEN TRUE
    ELSE \E i \in 1..Len(expectedPaneCommands) :
            Contains(getSessionInfo(r).info.command, expectedPaneCommands[i])

\* ret.arg is the index of the expected commands in ExpectedLists
IsAgentRunning(n, e) ==
    \E r \in Replies("info", n) :
        /\ ret' = Ret("IsAgentRunning", n, e, isAgentRunning(r, ExpectedLists[e]), "", "nil")
        /\ UNCHANGED <<daemonVars, lockVars, startVars, callVars>>

\* CheckSessionHealth taking a failed query for a session whose process died
checkSessionHealth_ErrAgentDead(r, maxInactivity) ==
    IF getSessionInfo(r).err # "nil" THEN "AgentDead"
    ELSE IF ~getSessionInfo(r).info.alive THEN "AgentDead"
    ELSE IF maxInactivity > 0 /\ getSessionInfo(r).info.idle > maxInactivity THEN "AgentHung"
    ELSE "SessionHealthy"

\* CheckSessionHealth comparing idle time with >= instead of >
checkSessionHealth_GE(r, maxInactivity) ==
    IF getSessionInfo(r).err # "nil" THEN "SessionDead"
    ELSE IF ~getSessionInfo(r).info.alive THEN "AgentDead"
    ELSE IF maxInactivity > 0 /\ getSessionInfo(r).info.idle >= maxInactivity THEN "AgentHung"
    ELSE "SessionHealthy"

\* CheckSessionHealth's status for a reply of `amux info --json`
checkSessionHealth(r, maxInactivity) ==
    IF getSessionInfo(r).err # "nil" THEN "SessionDead"
    ELSE IF ~getSessionInfo(r).info.alive THEN "AgentDead"
    ELSE IF maxInactivity > 0 /\ getSessionInfo(r).info.idle > maxInactivity THEN "AgentHung"
    ELSE "SessionHealthy"

CheckSessionHealth(n, maxInactivity) ==
    \E r \in Replies("info", n) :
        /\ ret' = Ret("CheckSessionHealth", n, maxInactivity, FALSE,
                      checkSessionHealth(r, maxInactivity), "nil")
        /\ UNCHANGED <<daemonVars, lockVars, startVars, callVars>>

\* SetEnvironment that leaves a variable already set as it is
applyEnv_KeepFirst(env, src) ==
    [k \in DOMAIN env \cup DOMAIN src |-> IF k \in DOMAIN env THEN env[k] ELSE src[k]]

\* SetEnvironment of every variable of src, one after the other
applyEnv(env, src) ==
    [k \in DOMAIN env \cup DOMAIN src |-> IF k \in DOMAIN src THEN src[k] ELSE env[k]]

\* the keys SetEnvironment and GetEnvironment are called with
KeyList == <<"GT_ROLE", "GT_RIG">>

\* SetEnvironment(session, key, value) runs `amux env set -t session key
\* value`; ret.arg is the index of the key in KeyList, ret.status the value
SetEnvironment(n, i, v) ==
    \E r \in Replies("env", n) :
        /\ sessions' =
              IF r.exit = 0
              THEN [sessions EXCEPT ![n].env = applyEnv(@, [x \in {KeyList[i]} |-> v])]
              ELSE sessions
        /\ ret' = Ret("SetEnvironment", n, i, FALSE, v, run(r).err)
        /\ UNCHANGED <<daemonUp, flaky, everCreated, lockVars, startVars, callVars>>

\* exit status, stdout and stderr of one run of `amux env get`
EnvReply(exit, out, stderr) == [exit |-> exit, out |-> out, stderr |-> stderr]

\* what `amux env get -t n key` gives: the value of a variable that is set;
\* for one that is not set the CLI prints nothing or fails
EnvGetReplies(n, key) ==
    (IF ~daemonUp THEN {EnvReply(1, "", {"daemon not running"})}
     ELSE IF ~Exists(n) THEN {EnvReply(1, "", {"not found"})}
     ELSE IF key \in DOMAIN sessions[n].env THEN {EnvReply(0, sessions[n].env[key], {})}
     ELSE {EnvReply(0, "", {}), EnvReply(1, "", {"other"})})
        \cup (IF flaky THEN {EnvReply(1, "", {"other"})} ELSE {})

\* GetEnvironment's (string, error) for a reply of `amux env get`: run
\* returns strings.TrimSpace(stdout)
getEnvironment(r) ==
    IF r.exit # 0 THEN [val |-> "", err |-> wrapError(r.stderr)]
    ELSE [val |-> IF r.out = " polecat " THEN "polecat" ELSE r.out, err |-> "nil"]

\* ret.arg is the index of the key in KeyList, ret.status the value returned
GetEnvironment(n, i) ==
    \E r \in EnvGetReplies(n, KeyList[i]) :
        /\ ret' = Ret("GetEnvironment", n, i, FALSE, getEnvironment(r).val,
                      getEnvironment(r).err)
        /\ UNCHANGED <<daemonVars, lockVars, startVars, callVars>>

\* what `amux ls --json` gives: the reply and the kind of its stdout ("" for
\* nothing, "json" for the list of the sessions, "garbage" for anything else)
LsReplies ==
    {[reply |-> IF daemonUp THEN Ok(NoSession) ELSE Fail({"daemon not running"}),
      stdout |-> IF daemonUp /\ DOMAIN sessions # {} THEN "json" ELSE ""]}
        \cup (IF flaky
              THEN {[reply |-> Fail({"other"}), stdout |-> ""],
                    [reply |-> Fail({"not found"}), stdout |-> ""],
                    [reply |-> Fail({"connection refused"}), stdout |-> ""],
                    [reply |-> Ok(NoSession), stdout |-> "garbage"]}
              ELSE {})

\* what the listing met: the error of run, "unparsable", or "nil"
lsOutcome(l) ==
    IF run(l.reply).err # "nil" THEN run(l.reply).err
    ELSE IF l.stdout = "garbage" THEN "unparsable"
    ELSE "nil"

\* ListSessionInfo that turns every failure into an empty list
listSessionInfo_SwallowAll(l) ==
    IF lsOutcome(l) # "nil" \/ l.stdout = ""
    THEN [list |-> {}, err |-> "nil"]
    ELSE [list |-> DOMAIN sessions, err |-> "nil"]

\* ListSessionInfo's ([]SessionInfo, error): list holds the names of the
\* sessions listed
listSessionInfo(l) ==
    IF run(l.reply).err # "nil"
    THEN IF run(l.reply).err = "ErrNoDaemon"
         THEN [list |-> {}, err |-> "nil"]
         ELSE [list |-> {}, err |-> run(l.reply).err]
    ELSE IF l.stdout = ""
    THEN [list |-> {}, err |-> "nil"]
    ELSE IF l.stdout = "garbage"
    THEN [list |-> {}, err |-> "amux ls: parsing JSON"]
    ELSE [list |-> DOMAIN sessions, err |-> "nil"]

\* ListSessions's ([]string, error)
listSessions(l) ==
    IF listSessionInfo(l).err # "nil"
    THEN [list |-> {}, err |-> listSessionInfo(l).err]
    ELSE [list |-> listSessionInfo(l).list, err |-> "nil"]

\* GetSessionSet's (*tmux.SessionSet, error): the set of the names listed
getSessionSet(l) ==
    IF listSessions(l).err # "nil"
    THEN [set |-> {}, err |-> listSessions(l).err]
    ELSE [set |-> listSessions(l).list, err |-> "nil"]

\* ret.arg is the length of the list, ret.status what the listing met
ListSessionInfo ==
    \E l \in LsReplies :
        /\ ret' = Ret("ListSessionInfo", "", Cardinality(listSessionInfo(l).list), FALSE,
                      lsOutcome(l), listSessionInfo(l).err)
        /\ UNCHANGED <<daemonVars, lockVars, startVars, callVars>>

ListSessions ==
    \E l \in LsReplies :
        /\ ret' = Ret("ListSessions", "", Cardinality(listSessions(l).list), FALSE,
                      lsOutcome(l), listSessions(l).err)
        /\ UNCHANGED <<daemonVars, lockVars, startVars, callVars>>

\* SendKeys's error for a reply of `amux send -t session -l keys`
sendKeys(r) == run(r).err

SendKeys(n) ==
    \E r \in Replies("send", n) :
        /\ ret' = Ret("SendKeys", n, 0, FALSE, "", sendKeys(r))
        /\ UNCHANGED <<daemonVars, lockVars, startVars, callVars>>

\* CapturePane(session, lines) runs `amux capture -t session --lines n`;
\* the text captured is not modelled
CapturePane(n) ==
    \E r \in Replies("capture", n) :
        /\ ret' = Ret("CapturePane", n, 0, FALSE, "", run(r).err)
        /\ UNCHANGED <<daemonVars, lockVars, startVars, callVars>>

(***************************************************************************)
(* The adapter before amux had `send` and `env`: SendKeys, SetEnvironment  *)
(* and GetEnvironment run no subprocess and return an error that wraps a   *)
(* sentinel and names the operation with some of its arguments.            *)
(***************************************************************************)
\* one of the three operations returns: the call's arguments and its error
unsupportedReturn(op, argv, err) ==
    /\ ret' = Ret(op, argv[1], 0, FALSE, "", err.is)
    /\ args' = argv
    /\ cerr' = err
    /\ UNCHANGED <<daemonVars, lockVars, startVars>>
    /\ UNCHANGED <<wcall, benv, osEnv, amuxFactory>>

\* fmt.Errorf("%w: SendKeys(%q)", ErrSendKeysNotSupport, session)
UnsupportedSendKeys(session, keys) ==
    unsupportedReturn("SendKeys (unsupported)", <<session, keys>>,
        [is |-> "ErrSendKeysNotSupport", op |-> "SendKeys", args |-> <<session>>])

\* fmt.Errorf("%w: SetEnvironment(%q, %q)", ErrNotImplemented, session, key)
UnsupportedSetEnvironment(session, key, value) ==
    unsupportedReturn("SetEnvironment (unsupported)", <<session, key, value>>,
        [is |-> "ErrNotImplemented", op |-> "SetEnvironment", args |-> <<session, key>>])

\* fmt.Errorf("%w: GetEnvironment(%q, %q)", ErrNotImplemented, session, key)
UnsupportedGetEnvironment(session, key) ==
    unsupportedReturn("GetEnvironment (unsupported)", <<session, key>>,
        [is |-> "ErrNotImplemented", op |-> "GetEnvironment", args |-> <<session, key>>])

(***************************************************************************)
(* buildEnv.  A string of the environment is the sequence of its pieces:   *)
(* names, values and "=" signs.                                            *)
(***************************************************************************)
\* the position of the first "=" in a string, 0 if there is none
IndexEq(e) ==
    IF \E i \in 1..Len(e) : e[i] = "="
    THEN CHOOSE i \in 1..Len(e) : e[i] = "=" /\ \A j \in 1..(i - 1) : e[j] # "="
    ELSE 0

\* strings.SplitN(e, "=", 2)
SplitN(e) ==
    IF IndexEq(e) = 0 THEN <<e>>
    ELSE <<SubSeq(e, 1, IndexEq(e) - 1), SubSeq(e, IndexEq(e) + 1, Len(e))>>

\* the first loop of buildEnv over os.Environ()[1..i]
RECURSIVE inherit(_, _)
inherit(environ, i) ==
    IF i = 0 THEN [x \in {} |-> <<>>]
    ELSE IF Len(SplitN(environ[i])) = 2
    THEN LET base == inherit(environ, i - 1)
             kv == SplitN(environ[i])
         IN  [x \in DOMAIN base \cup {kv[1]} |-> IF x = kv[1] THEN kv[2] ELSE base[x]]
    ELSE inherit(environ, i - 1)

\* the second loop of buildEnv: base[k] = v for every variable of env
overlay(base, env) ==
    [x \in DOMAIN base \cup {<<k>> : k \in DOMAIN env} |->
        IF \E k \in DOMAIN env : x = <<k>>
        THEN <<env[CHOOSE k \in DOMAIN env : x = <<k>>]>>
        ELSE base[x]]

\* buildEnv that appends the overlay to the inherited strings
buildEnv_Append(environ, env) ==
    {x \o <<"=">> \o inherit(environ, Len(environ))[x] :
                x \in DOMAIN inherit(environ, Len(environ))}
        \cup {<<k, "=", env[k]>> : k \in DOMAIN env}

\* buildEnv(env) with os.Environ() = environ: the strings of the result
buildEnv(environ, env) ==
    {x \o <<"=">> \o overlay(inherit(environ, Len(environ)), env)[x] :
        x \in DOMAIN overlay(inherit(environ, Len(environ)), env)}

\* buildEnv is a function of its inputs alone: one call is followed here
BuildEnvCall(environ, env) ==
    /\ ~benv.called
    /\ benv' = [called |-> TRUE, environ |-> environ, env |-> env,
                result |-> buildEnv(environ, env)]
    /\ UNCHANGED <<daemonVars, ret, lockVars, startVars>>
    /\ UNCHANGED <<wcall, args, cerr, osEnv, amuxFactory>>

(***************************************************************************)
(* Nudge lock registry.  sessionNudgeLocks maps a session name to a        *)
(* channel of capacity 1; a channel is identified by a number and chanLen  *)
(* holds the number of elements buffered in each channel of the registry.  *)
(* Time is counted in ticks; it passes for a caller only while it is       *)
(* blocked in its select.                                                  *)
(***************************************************************************)
\* make(chan struct{}, 1): a channel no one else has
NewChan == Cardinality(DOMAIN chanLen) + 1

\* sync.Map.Store in place of LoadOrStore: the new value replaces the entry
LoadOrStore_Store(m, key, val) ==
    [map |-> [k \in DOMAIN m \cup {key} |-> IF k = key THEN val ELSE m[k]],
     actual |-> val]

\* sync.Map.LoadOrStore: the map afterwards and the value now stored for key
LoadOrStore(m, key, val) ==
    IF key \in DOMAIN m
    THEN [map |-> m, actual |-> m[key]]
    ELSE [map |-> [k \in DOMAIN m \cup {key} |-> IF k = key THEN val ELSE m[k]],
          actual |-> val]

\* getSessionNudgeSem with one lock for all sessions
getSessionNudgeSem_Global(session) == LoadOrStore(sessionNudgeLocks, "w", NewChan)

\* getSessionNudgeSem: the registry afterwards and the channel of the session
getSessionNudgeSem(session) == LoadOrStore(sessionNudgeLocks, session, NewChan)

\* the channels after getSessionNudgeSem: a stored channel starts empty
chansAfterGet(session) ==
    IF getSessionNudgeSem(session).actual \in DOMAIN chanLen
    THEN chanLen
    ELSE [c \in DOMAIN chanLen \cup {getSessionNudgeSem(session).actual} |->
            IF c \in DOMAIN chanLen THEN chanLen[c] ELSE 0]

\* a send on a channel that takes any number of elements
sendReady_Unbounded(c) == TRUE

\* `case sem <- struct{}{}` can proceed: the buffer (capacity 1) has room
sendReady(c) == chanLen[c] < 1

\* the timer fires at once, whatever the timeout
timerFired_AtOnce(p) == TRUE

\* `case <-time.After(timeout)` can proceed: the timeout has elapsed
timerFired(p) == waited[p] >= ptimeout[p]

Waiting(p) == pc[p] \in {"select", "n_select"}

\* entry of acquireNudgeLock: fetch the channel, then block in select
acquireEnter(p, session, timeout, at) ==
    /\ pc[p] = "idle"
    /\ sessionNudgeLocks' = getSessionNudgeSem(session).map
    /\ chanLen' = chansAfterGet(session)
    /\ psem' = [psem EXCEPT ![p] = getSessionNudgeSem(session).actual]
    /\ psess' = [psess EXCEPT ![p] = session]
    /\ ptimeout' = [ptimeout EXCEPT ![p] = timeout]
    /\ waited' = [waited EXCEPT ![p] = 0]
    /\ pc' = [pc EXCEPT ![p] = at]
    /\ pret' = [pret EXCEPT ![p] = "none"]
    /\ UNCHANGED <<daemonVars, ret, startVars, callVars>>

\* `select { case <-sem: default: }` that receives whether or not the channel
\* holds an element
recvOrDefault_Counting(chans, c) == [chans EXCEPT ![c] = @ - 1]

\* `select { case <-sem: default: }`: take the element if there is one
recvOrDefault(chans, c) == [chans EXCEPT ![c] = IF @ > 0 THEN @ - 1 ELSE @]

\* releaseNudgeLock: receive from the session's channel if it holds an
\* element, do nothing otherwise
releaseNudgeLock(session) ==
    /\ sessionNudgeLocks' = getSessionNudgeSem(session).map
    /\ chanLen' = recvOrDefault(chansAfterGet(session), getSessionNudgeSem(session).actual)

\* the caller's locals go out of scope when its call returns
returned(p, result) ==
    /\ pc' = [pc EXCEPT ![p] = "idle"]
    /\ pret' = [pret EXCEPT ![p] = result]
    /\ psess' = [psess EXCEPT ![p] = "w"]
    /\ psem' = [psem EXCEPT ![p] = 0]
    /\ ptimeout' = [ptimeout EXCEPT ![p] = 0]
    /\ waited' = [waited EXCEPT ![p] = 0]

\* time passes: every caller is blocked (no buffer has room for it, no timer
\* of it has fired) and waits one tick longer
Tick ==
    /\ \E p \in Procs : Waiting(p)
    /\ \A p \in Procs : Waiting(p) => ~sendReady(psem[p]) /\ ~timerFired(p)
    /\ waited' = [p \in Procs |-> IF Waiting(p) THEN waited[p] + 1 ELSE waited[p]]
    /\ UNCHANGED <<sessionNudgeLocks, chanLen, pc, psess, psem, ptimeout, pret>>
    /\ UNCHANGED <<daemonVars, ret, startVars, callVars>>

(***************************************************************************)
(* NudgeSession, step by step: acquire (enter, then select), SendKeys as a *)
(* subprocess that runs from the acquisition to NudgeSendKeys, and the     *)
(* deferred release.                                                       *)
(***************************************************************************)
NudgeCall(p, session) == acquireEnter(p, session, nudgeLockTimeout, "n_select")

\* the select sends: the lock is acquired, SendKeys starts
NudgeAcquired(p) ==
    /\ pc[p] = "n_select"
    /\ sendReady(psem[p])
    /\ chanLen' = [chanLen EXCEPT ![psem[p]] = @ + 1]
    /\ pc' = [pc EXCEPT ![p] = "n_send"]
    /\ UNCHANGED <<sessionNudgeLocks, psess, psem, ptimeout, waited, pret>>
    /\ UNCHANGED <<daemonVars, ret, startVars, callVars>>

\* NudgeSession's timeout branch that also releases the session's lock
NudgeTimeout_Release(p) ==
    /\ pc[p] = "n_select"
    /\ timerFired(p)
    /\ releaseNudgeLock(psess[p])
    /\ returned(p, "nudge lock timeout for session " \o psess[p])
    /\ UNCHANGED <<daemonVars, ret, startVars, callVars>>

\* NudgeSession that starts the wait again when the timer fires
NudgeTimeout_Rearm(p) ==
    /\ pc[p] = "n_select"
    /\ timerFired(p)
    /\ waited' = [waited EXCEPT ![p] = 0]
    /\ UNCHANGED <<sessionNudgeLocks, chanLen, pc, psess, psem, ptimeout, pret>>
    /\ UNCHANGED <<daemonVars, ret, startVars, callVars>>

\* the select times out: NudgeSession returns the lock-timeout error
NudgeTimeout(p) ==
    /\ pc[p] = "n_select"
    /\ timerFired(p)
    /\ returned(p, "nudge lock timeout for session " \o psess[p])
    /\ UNCHANGED <<sessionNudgeLocks, chanLen>>
    /\ UNCHANGED <<daemonVars, ret, startVars, callVars>>

\* SendKeys returns: its error is what NudgeSession will return
NudgeSendKeys(p) ==
    /\ pc[p] = "n_send"
    /\ \E r \in Replies("send", psess[p]) :
          pret' = [pret EXCEPT ![p] = sendKeys(r)]
    /\ pc' = [pc EXCEPT ![p] = "n_defer"]
    /\ UNCHANGED <<sessionNudgeLocks, chanLen, psess, psem, ptimeout, waited>>
    /\ UNCHANGED <<daemonVars, ret, startVars, callVars>>

\* the deferred release that runs only when SendKeys succeeded
NudgeReturn_OnSuccess(p) ==
    /\ pc[p] = "n_defer"
    /\ IF pret[p] = "nil" THEN releaseNudgeLock(psess[p])
       ELSE UNCHANGED <<sessionNudgeLocks, chanLen>>
    /\ returned(p, pret[p])
    /\ UNCHANGED <<daemonVars, ret, startVars, callVars>>

\* the deferred releaseNudgeLock runs and NudgeSession returns
NudgeReturn(p) ==
    /\ pc[p] = "n_defer"
    /\ releaseNudgeLock(psess[p])
    /\ returned(p, pret[p])
    /\ UNCHANGED <<daemonVars, ret, startVars, callVars>>

(***************************************************************************)
(* acquireNudgeLock and releaseNudgeLock called directly, as TestNudgeLock *)
(* does.                                                                   *)
(***************************************************************************)
AcquireCall(p, session, timeout) == acquireEnter(p, session, timeout, "select")

\* acquireNudgeLock returns true
AcquireTrue(p) ==
    /\ pc[p] = "select"
    /\ sendReady(psem[p])
    /\ chanLen' = [chanLen EXCEPT ![psem[p]] = @ + 1]
    /\ returned(p, "true")
    /\ UNCHANGED sessionNudgeLocks
    /\ UNCHANGED <<daemonVars, ret, startVars, callVars>>

\* acquireNudgeLock returns false
AcquireFalse(p) ==
    /\ pc[p] = "select"
    /\ timerFired(p)
    /\ returned(p, "false")
    /\ UNCHANGED <<sessionNudgeLocks, chanLen>>
    /\ UNCHANGED <<daemonVars, ret, startVars, callVars>>

\* releaseNudgeLock is called: it fetches the session's channel
ReleaseCall(p, session) ==
    /\ pc[p] = "idle"
    /\ sessionNudgeLocks' = getSessionNudgeSem(session).map
    /\ chanLen' = chansAfterGet(session)
    /\ psem' = [psem EXCEPT ![p] = getSessionNudgeSem(session).actual]
    /\ psess' = [psess EXCEPT ![p] = session]
    /\ pc' = [pc EXCEPT ![p] = "release"]
    /\ pret' = [pret EXCEPT ![p] = "none"]
    /\ UNCHANGED <<ptimeout, waited>>
    /\ UNCHANGED <<daemonVars, ret, startVars, callVars>>

\* releaseNudgeLock's select runs and the call returns; ret.arg records the
\* number of elements the channel held
ReleaseDone(p) ==
    /\ pc[p] = "release"
    /\ chanLen' = recvOrDefault(chanLen, psem[p])
    /\ returned(p, "released")
    /\ ret' = Ret("releaseNudgeLock", psess[p], chanLen[psem[p]], FALSE, "", "nil")
    /\ UNCHANGED sessionNudgeLocks
    /\ UNCHANGED <<daemonVars, startVars, callVars>>

(***************************************************************************)
(* The tmux backend, as far as Manager.Start depends on it: it tells a     *)
(* session that exists from one whose hosted process is alive, and it has  *)
(* the extended capabilities (TmuxExtras).                                  *)
(***************************************************************************)
\* HasSession as (running, err): not-found is false with no error; only an
\* unexpected failure of the backend is returned as an error
tmuxHasSession(n) ==
    {[val |-> daemonUp /\ Exists(n), err |-> "nil"]}
        \cup (IF flaky THEN {[val |-> FALSE, err |-> "tmux: unexpected"]} ELSE {})

tmuxIsAgentAlive(n) == daemonUp /\ Exists(n) /\ sessions[n].alive

\* WaitForCommand succeeds only when the hosted program is running
tmuxWaitForCommand(n) == daemonUp /\ Exists(n) /\ sessions[n].alive

\* tmux's GetSessionInfo gives the rich descriptor of a session that exists
tmuxGetSessionInfo(n) ==
    IF daemonUp /\ Exists(n) THEN "SessionInfo{Name: w, ...}" ELSE "ErrSessionNotFound"

\* a type assertion that every backend passes
hasTmuxExtras_Every == TRUE

\* t.(session.TmuxExtras): only the tmux backend has the extras
hasTmuxExtras == backendKind = "tmux"

sessionID == "w"

\* the backend's HasSession as the manager calls it, (running, err): on
\* amux what the adapter returns for the reply, on tmux what tmux returns
backendHasSession(r, n) ==
    IF backendKind = "amux" THEN {hasSession(r)}
    ELSE tmuxHasSession(n)

\* tmux's CheckSessionHealth, the health classifier: no session is
\* SessionDead, a session whose process is not alive is AgentDead, an alive
\* one idle for longer than a positive threshold is AgentHung
tmuxCheckSessionHealth(n, maxInactivity) ==
    IF ~(daemonUp /\ Exists(n)) THEN "SessionDead"
    ELSE IF ~sessions[n].alive THEN "AgentDead"
    ELSE IF maxInactivity > 0 /\ sessions[n].idle > maxInactivity THEN "AgentHung"
    ELSE "SessionHealthy"

\* the backend's CheckSessionHealth as the manager calls it
backendCheckSessionHealth(r, n, maxInactivity) ==
    IF backendKind = "amux" THEN checkSessionHealth(r, maxInactivity)
    ELSE tmuxCheckSessionHealth(n, maxInactivity)

\* IsRunning comparing the status of a threshold of its own
isRunning_Threshold(r) == backendCheckSessionHealth(r, sessionID, 1) = "SessionHealthy"

\* IsRunning's bool: CheckSessionHealth with threshold 0 is SessionHealthy
isRunning(r) == backendCheckSessionHealth(r, sessionID, 0) = "SessionHealthy"

\* Manager.IsRunning
IsRunning ==
    \E r \in Replies("info", sessionID) :
        /\ ret' = Ret("IsRunning", sessionID, 0, isRunning(r), "", "nil")
        /\ UNCHANGED <<daemonVars, lockVars, startVars, callVars>>

\* Manager.IsHealthy(maxInactivity): the status of CheckSessionHealth
IsHealthy(maxInactivity) ==
    \E r \in Replies("info", sessionID) :
        /\ ret' = Ret("IsHealthy", sessionID, maxInactivity, FALSE,
                      backendCheckSessionHealth(r, sessionID, maxInactivity), "nil")
        /\ UNCHANGED <<daemonVars, lockVars, startVars, callVars>>

\* ret records an existence probe of the manager that returned an error,
\* until the manager's next probe
probeLog(h) ==
    IF h.err # "nil" THEN Ret("HasSession", sessionID, 0, h.val, "", h.err)
    ELSE IF ret.op = "HasSession" THEN NoRet
    ELSE ret

(***************************************************************************)
(* witness.Manager.Start, one step per backend call.  The session is       *)
(* m.SessionName() = "w".                                                  *)
(***************************************************************************)
\* config.AgentEnv of the witness: Role is "witness"
AgentEnv == [k \in Keys |-> "witness"]

\* the locals of an invocation that has not started: no environment source
\* is known yet.  Three fields record what the invocation has been through:
\* absent (its HasSession reported no session), killed (its KillSession
\* destroyed a zombie), raced (it and another invocation both found no
\* session and the other one's create has succeeded since)
NoSources ==
    [base |-> NoEnv, role |-> NoEnv, overrides |-> NoEnv,
     absent |-> FALSE, killed |-> FALSE, raced |-> FALSE]

\* the invocation returns: its locals go out of scope
startReturn(s, result) ==
    /\ spc' = [spc EXCEPT ![s] = "idle"]
    /\ sret' = [sret EXCEPT ![s] = result]
    /\ senv' = [senv EXCEPT ![s] = NoSources]

startGoto(s, at) ==
    /\ spc' = [spc EXCEPT ![s] = at]
    /\ UNCHANGED <<sret, senv>>

\* Start(foreground = true, ...) is refused
StartForeground(s) ==
    /\ spc[s] = "idle"
    /\ startReturn(s, "foreground mode is deprecated")
    /\ UNCHANGED <<daemonVars, ret, lockVars, backendKind, callVars>>

\* Start(foreground = false, agentOverride, envOverrides) is called; base is
\* what config.AgentEnv gives for this manager and agentOverride
StartCall(s, base, overrides) ==
    /\ spc[s] = "idle"
    /\ spc' = [spc EXCEPT ![s] = "has"]
    /\ sret' = [sret EXCEPT ![s] = "none"]
    /\ senv' = [senv EXCEPT ![s] = [NoSources EXCEPT !.base = base, !.overrides = overrides]]
    /\ UNCHANGED <<daemonVars, ret, lockVars, backendKind, callVars>>

\* Start that destroys every session it finds, without the liveness probe
StartHasSession_NoProbe(s) ==
    /\ spc[s] = "has"
    /\ \E r \in Replies("has", sessionID) : \E h \in backendHasSession(r, sessionID) :
          /\ ret' = probeLog(h)
          /\ IF h.val
             THEN startGoto(s, "kill")
             ELSE /\ spc' = [spc EXCEPT ![s] = "config"]
                  /\ senv' = [senv EXCEPT ![s].absent = TRUE]
                  /\ UNCHANGED sret
    /\ UNCHANGED <<daemonVars, lockVars, backendKind, callVars>>

\* running, _ := t.HasSession(sessionID): the error is dropped
StartHasSession(s) ==
    /\ spc[s] = "has"
    /\ \E r \in Replies("has", sessionID) : \E h \in backendHasSession(r, sessionID) :
          /\ ret' = probeLog(h)
          /\ IF h.val
             THEN startGoto(s, "alive")
             ELSE /\ spc' = [spc EXCEPT ![s] = "config"]
                  /\ senv' = [senv EXCEPT ![s].absent = TRUE]
                  /\ UNCHANGED sret
    /\ UNCHANGED <<daemonVars, lockVars, backendKind, callVars>>

\* Start that takes every existing session for a zombie
StartIsAgentAlive_Blind(s) ==
    /\ spc[s] = "alive"
    /\ startGoto(s, "kill")
    /\ UNCHANGED <<daemonVars, ret, lockVars, backendKind, callVars>>

\* if t.IsAgentAlive(sessionID) { return ErrAlreadyRunning }
StartIsAgentAlive(s) ==
    /\ spc[s] = "alive"
    /\ \E r \in Replies("has", sessionID) :
          IF (IF backendKind = "amux" THEN isAgentAlive(r) ELSE tmuxIsAgentAlive(sessionID))
          THEN startReturn(s, "ErrAlreadyRunning")
          ELSE startGoto(s, "kill")
    /\ UNCHANGED <<daemonVars, ret, lockVars, backendKind, callVars>>

\* Start that goes on to the creation although the destroy failed
StartKillZombie_GoOn(s) ==
    /\ spc[s] = "kill"
    /\ \E r \in Replies("kill", sessionID) :
          /\ sessions' = IF r.exit = 0 THEN Killed(sessionID) ELSE sessions
          /\ spc' = [spc EXCEPT ![s] = "config"]
          /\ senv' = [senv EXCEPT ![s].killed = TRUE]
          /\ UNCHANGED sret
    /\ UNCHANGED <<daemonUp, flaky, everCreated, ret, lockVars, backendKind, callVars>>

\* t.KillSession(sessionID) of the zombie
StartKillZombie(s) ==
    /\ spc[s] = "kill"
    /\ \E r \in Replies("kill", sessionID) :
          /\ sessions' = IF r.exit = 0 THEN Killed(sessionID) ELSE sessions
          /\ IF run(r).err # "nil"
             THEN startReturn(s, "killing zombie session: " \o run(r).err)
             ELSE /\ spc' = [spc EXCEPT ![s] = "config"]
                  /\ senv' = [senv EXCEPT ![s].killed = TRUE]
                  /\ UNCHANGED sret
    /\ UNCHANGED <<daemonUp, flaky, everCreated, ret, lockVars, backendKind, callVars>>

\* settings, role configuration (with its environment variables) and the
\* startup command: collaborators that succeed or fail
StartConfig(s, role) ==
    /\ spc[s] = "config"
    /\ \E ok \in BOOLEAN :
          IF ok
          THEN /\ spc' = [spc EXCEPT ![s] = "create"]
               /\ senv' = [senv EXCEPT ![s].role = role]
               /\ UNCHANGED sret
          ELSE startReturn(s, "config error")
    /\ UNCHANGED <<daemonVars, ret, lockVars, backendKind, callVars>>

\* the locals after the create of s succeeded: an invocation under way
\* that found no session, as s did, has raced with s
racedWith(s) ==
    [u \in Starters |->
        IF u # s /\ spc[u] \notin {"idle", "has"} /\ senv[u].absent /\ senv[s].absent
        THEN [senv[u] EXCEPT !.raced = TRUE]
        ELSE senv[u]]

\* Start whose create replaces a session that exists
StartCreate_Replace(s) ==
    /\ spc[s] = "create"
    /\ \E r \in Replies("new", sessionID) :
          /\ sessions' = IF daemonUp THEN Created(sessionID, "agent", NoEnv) ELSE sessions
          /\ everCreated' = IF daemonUp THEN everCreated \cup {sessionID} ELSE everCreated
          /\ IF ~daemonUp
             THEN startReturn(s, "creating session: " \o run(r).err)
             ELSE /\ spc' = [spc EXCEPT ![s] = "env"]
                  /\ senv' = racedWith(s)
                  /\ UNCHANGED sret
    /\ UNCHANGED <<daemonUp, flaky, ret, lockVars, backendKind, callVars>>

\* Start that checks again when the create finds the session existing
StartCreate_Retry(s) ==
    /\ spc[s] = "create"
    /\ \E r \in Replies("new", sessionID) :
          /\ sessions' = IF r.exit = 0 THEN Created(sessionID, "agent", NoEnv) ELSE sessions
          /\ everCreated' = IF r.exit = 0 THEN everCreated \cup {sessionID} ELSE everCreated
          /\ IF run(r).err = "ErrSessionExists"
             THEN startGoto(s, "has")
             ELSE IF run(r).err # "nil"
             THEN startReturn(s, "creating session: " \o run(r).err)
             ELSE /\ spc' = [spc EXCEPT ![s] = "env"]
                  /\ senv' = racedWith(s)
                  /\ UNCHANGED sret
    /\ UNCHANGED <<daemonUp, flaky, ret, lockVars, backendKind, callVars>>

\* t.NewSessionWithCommand(sessionID, witnessDir, command)
StartCreate(s) ==
    /\ spc[s] = "create"
    /\ \E r \in Replies("new", sessionID) :
          /\ sessions' = IF r.exit = 0 THEN Created(sessionID, "agent", NoEnv) ELSE sessions
          /\ everCreated' = IF r.exit = 0 THEN everCreated \cup {sessionID} ELSE everCreated
          /\ IF run(r).err # "nil"
             THEN startReturn(s, "creating session: " \o run(r).err)
             ELSE /\ spc' = [spc EXCEPT ![s] = "env"]
                  /\ senv' = racedWith(s)
                  /\ UNCHANGED sret
    /\ UNCHANGED <<daemonUp, flaky, ret, lockVars, backendKind, callVars>>

\* the errors one SetEnvironment call can return: the adapter runs
\* `amux env set`; the adapter without environment support returns
\* ErrNotImplemented
setEnvironment(n) ==
    {run(r).err : r \in Replies("env", n)}
        \cup (IF backendKind = "amux" THEN {"ErrNotImplemented"} ELSE {})

\* Start that gives up when a SetEnvironment call fails
StartSetEnvironment_Fatal(s) ==
    /\ spc[s] = "env"
    /\ \E err \in setEnvironment(sessionID) :
          /\ sessions' =
                IF err = "nil"
                THEN [sessions EXCEPT ![sessionID].env =
                        applyEnv(applyEnv(applyEnv(@, senv[s].base), senv[s].role),
                                 senv[s].overrides)]
                ELSE sessions
          /\ ret' = Ret("SetEnvironment", sessionID, 0, FALSE, "", err)
          /\ IF err = "nil" THEN startGoto(s, "extras")
             ELSE startReturn(s, "setting environment: " \o err)
    /\ UNCHANGED <<daemonUp, flaky, everCreated, lockVars, backendKind, callVars>>

\* the three loops of SetEnvironment: AgentEnv, the role configuration's
\* variables, the CLI overrides, in this order; every error is dropped.  ret
\* records the error the calls returned.
StartSetEnvironment(s) ==
    /\ spc[s] = "env"
    /\ \E err \in setEnvironment(sessionID) :
          /\ sessions' =
                IF err = "nil"
                THEN [sessions EXCEPT ![sessionID].env =
                        applyEnv(applyEnv(applyEnv(@, senv[s].base), senv[s].role),
                                 senv[s].overrides)]
                ELSE sessions
          /\ ret' = Ret("SetEnvironment", sessionID, 0, FALSE, "", err)
    /\ startGoto(s, "extras")
    /\ UNCHANGED <<daemonUp, flaky, everCreated, lockVars, backendKind, callVars>>

\* what the best-effort steps leave behind: ret records the step that failed
extrasLog(failed) ==
    IF failed = "none" THEN ret
    ELSE Ret("Start.extras", sessionID, 0, FALSE, failed, "nil")

\* Start that gives up when the bypass dialog cannot be dismissed
StartExtras_FatalBypass(s) ==
    /\ spc[s] = "extras"
    /\ IF hasTmuxExtras /\ ~tmuxWaitForCommand(sessionID)
       THEN startGoto(s, "waitkill") /\ UNCHANGED ret
       ELSE IF hasTmuxExtras
       THEN \E failed \in {"theme", "bypass", "pid", "none"} :
               /\ ret' = extrasLog(failed)
               /\ startReturn(s, IF failed = "bypass" THEN "accepting bypass permissions"
                                 ELSE "nil")
       ELSE startReturn(s, "nil") /\ UNCHANGED ret
    /\ UNCHANGED <<daemonVars, lockVars, backendKind, callVars>>

\* with TmuxExtras: theme (error dropped), WaitForCommand (fatal), bypass
\* dialog (error logged), then PID tracking on tmux (error logged); without:
\* sleep.  Whichever best-effort step fails, Start returns nil.
StartExtras(s) ==
    /\ spc[s] = "extras"
    /\ IF hasTmuxExtras /\ ~tmuxWaitForCommand(sessionID)
       THEN startGoto(s, "waitkill") /\ UNCHANGED ret
       ELSE IF hasTmuxExtras
       THEN \E failed \in {"theme", "bypass", "pid", "none"} :
               /\ ret' = extrasLog(failed)
               /\ startReturn(s, "nil")
       ELSE startReturn(s, "nil") /\ UNCHANGED ret
    /\ UNCHANGED <<daemonVars, lockVars, backendKind, callVars>>

\* Start that returns the readiness error and leaves the session
StartWaitFailed_NoKill(s) ==
    /\ spc[s] = "waitkill"
    /\ startReturn(s, "waiting for witness to start")
    /\ UNCHANGED <<daemonVars, ret, lockVars, backendKind, callVars>>

\* _ = t.KillSessionWithProcesses(sessionID) after a failed WaitForCommand
StartWaitFailed(s) ==
    /\ spc[s] = "waitkill"
    /\ \E r \in Replies("kill", sessionID) :
          sessions' = IF r.exit = 0 THEN Killed(sessionID) ELSE sessions
    /\ startReturn(s, "waiting for witness to start")
    /\ UNCHANGED <<daemonUp, flaky, everCreated, ret, lockVars, backendKind, callVars>>

(***************************************************************************)
(* witness.Manager.Stop and Manager.Status, one step per backend call.     *)
(***************************************************************************)
StopCall(s) ==
    /\ spc[s] = "idle"
    /\ spc' = [spc EXCEPT ![s] = "stop_has"]
    /\ sret' = [sret EXCEPT ![s] = "none"]
    /\ UNCHANGED senv
    /\ UNCHANGED <<daemonVars, ret, lockVars, backendKind, callVars>>

\* Stop that returns the error of the existence probe, as Status does
StopHasSession_Propagate(s) ==
    /\ spc[s] = "stop_has"
    /\ \E r \in Replies("has", sessionID) : \E h \in backendHasSession(r, sessionID) :
          /\ ret' = probeLog(h)
          /\ IF h.err # "nil"
             THEN startReturn(s, "checking session: " \o h.err)
             ELSE IF h.val
             THEN startGoto(s, "stop_kill")
             ELSE startReturn(s, "ErrNotRunning")
    /\ UNCHANGED <<daemonVars, lockVars, backendKind, callVars>>

\* running, _ := t.HasSession(sessionID); if !running { return ErrNotRunning }
StopHasSession(s) ==
    /\ spc[s] = "stop_has"
    /\ \E r \in Replies("has", sessionID) : \E h \in backendHasSession(r, sessionID) :
          /\ ret' = probeLog(h)
          /\ IF h.val
             THEN startGoto(s, "stop_kill")
             ELSE startReturn(s, "ErrNotRunning")
    /\ UNCHANGED <<daemonVars, lockVars, backendKind, callVars>>

\* Stop that destroys only a session whose hosted process is alive
StopKill_SpareZombie(s) ==
    /\ spc[s] = "stop_kill"
    /\ IF Exists(sessionID) /\ ~sessions[sessionID].alive
       THEN /\ startReturn(s, "ErrNotRunning")
            /\ UNCHANGED <<sessions, ret>>
       ELSE \E r \in Replies("kill", sessionID) :
               /\ sessions' = IF r.exit = 0 THEN Killed(sessionID) ELSE sessions
               /\ ret' = Ret("Stop", sessionID, 0, TRUE, "", run(r).err)
               /\ startReturn(s, run(r).err)
    /\ UNCHANGED <<daemonUp, flaky, everCreated, lockVars, backendKind, callVars>>

\* return t.KillSession(sessionID); ret records the idle time and the
\* liveness of the session the kill found
StopKill(s) ==
    /\ spc[s] = "stop_kill"
    /\ \E r \in Replies("kill", sessionID) :
          /\ sessions' = IF r.exit = 0 THEN Killed(sessionID) ELSE sessions
          /\ ret' = Ret("Stop", sessionID,
                        IF Exists(sessionID) THEN sessions[sessionID].idle ELSE 0,
                        Exists(sessionID) /\ sessions[sessionID].alive, "", run(r).err)
          /\ startReturn(s, run(r).err)
    /\ UNCHANGED <<daemonUp, flaky, everCreated, lockVars, backendKind, callVars>>

StatusCall(s) ==
    /\ spc[s] = "idle"
    /\ spc' = [spc EXCEPT ![s] = "status_has"]
    /\ sret' = [sret EXCEPT ![s] = "none"]
    /\ UNCHANGED senv
    /\ UNCHANGED <<daemonVars, ret, lockVars, backendKind, callVars>>

\* Status that does not look at what HasSession returned
StatusHasSession_NoCheck(s) ==
    /\ spc[s] = "status_has"
    /\ IF backendKind = "tmux"
       THEN startGoto(s, "status_info")
       ELSE startReturn(s, "SessionInfo{Name: w}")
    /\ UNCHANGED <<daemonVars, ret, lockVars, backendKind, callVars>>

\* HasSession, then the type switch: *tmux.Tmux goes on to GetSessionInfo,
\* any other backend returns &tmux.SessionInfo{Name: sessionID}
StatusHasSession(s) ==
    /\ spc[s] = "status_has"
    /\ \E r \in Replies("has", sessionID) : \E h \in backendHasSession(r, sessionID) :
          /\ ret' = probeLog(h)
          /\ IF h.err # "nil"
             THEN startReturn(s, "checking session: " \o h.err)
             ELSE IF ~h.val
             THEN startReturn(s, "ErrNotRunning")
             ELSE IF backendKind = "tmux"
             THEN startGoto(s, "status_info")
             ELSE startReturn(s, "SessionInfo{Name: w}")
    /\ UNCHANGED <<daemonVars, lockVars, backendKind, callVars>>

\* return tmuxT.GetSessionInfo(sessionID)
StatusInfo(s) ==
    /\ spc[s] = "status_info"
    /\ startReturn(s, tmuxGetSessionInfo(sessionID))
    /\ UNCHANGED <<daemonVars, ret, lockVars, backendKind, callVars>>

(***************************************************************************)
(* What happens to the daemon without the adapter: the hosted process      *)
(* exits (the session stays, a zombie), produces output or stays silent,   *)
(* the daemon reaps a dead session, the daemon stops or starts.  The last  *)
(* returned call is no longer the latest thing that happened.              *)
(***************************************************************************)
AgentExit(n) ==
    /\ Exists(n) /\ sessions[n].alive
    /\ sessions' = [sessions EXCEPT ![n].alive = FALSE]
    /\ ret' = NoRet
    /\ UNCHANGED <<daemonUp, flaky, everCreated, lockVars, startVars, callVars>>

IdleTick(n) ==
    /\ Exists(n) /\ sessions[n].idle < MaxIdle
    /\ sessions' = [sessions EXCEPT ![n].idle = @ + 1]
    /\ ret' = NoRet
    /\ UNCHANGED <<daemonUp, flaky, everCreated, lockVars, startVars, callVars>>

Activity(n) ==
    /\ Exists(n) /\ sessions[n].alive /\ sessions[n].idle > 0
    /\ sessions' = [sessions EXCEPT ![n].idle = 0]
    /\ ret' = NoRet
    /\ UNCHANGED <<daemonUp, flaky, everCreated, lockVars, startVars, callVars>>

DaemonStop ==
    /\ daemonUp
    /\ daemonUp' = FALSE
    /\ sessions' = [m \in {} |-> NoSession]
    /\ ret' = NoRet
    /\ UNCHANGED <<flaky, everCreated, lockVars, startVars, callVars>>

DaemonStart ==
    /\ ~daemonUp
    /\ daemonUp' = TRUE
    /\ ret' = NoRet
    /\ UNCHANGED <<sessions, flaky, everCreated, lockVars, startVars, callVars>>

(***************************************************************************)
(* Spec: one caller driving the adapter against the daemon.                *)
(***************************************************************************)
\* thresholds passed to CheckSessionHealth: negative, zero and positive
Thresholds == -1 .. MaxIdle

InitDaemon ==
    /\ daemonUp = TRUE
    /\ sessions = [m \in {} |-> NoSession]
    /\ everCreated = {}
    /\ ret = NoRet

InitLocks ==
    /\ sessionNudgeLocks = [m \in {} |-> 0]
    /\ chanLen = [c \in {} |-> 0]
    /\ pc = [p \in Procs |-> "idle"]
    /\ psess = [p \in Procs |-> "w"]
    /\ psem = [p \in Procs |-> 0]
    /\ ptimeout = [p \in Procs |-> 0]
    /\ waited = [p \in Procs |-> 0]
    /\ pret = [p \in Procs |-> "none"]

InitStart ==
    /\ backendKind = "amux"
    /\ spc = [s \in Starters |-> "idle"]
    /\ sret = [s \in Starters |-> "none"]
    /\ senv = [s \in Starters |-> NoSources]

\* no error value
NoErr == [is |-> "nil", op |-> "", args |-> <<>>]

InitWrap ==
    /\ wcall = NoCall
    /\ args = <<>>
    /\ cerr = NoErr
    /\ benv = [called |-> FALSE, environ |-> <<>>, env |-> NoEnv, result |-> {}]
    /\ osEnv = <<>>
    /\ amuxFactory = TRUE

Init == InitDaemon /\ flaky = FALSE /\ InitLocks /\ InitStart /\ InitWrap

Next ==
    \/ \E n \in Names : NewSession(n)
    \/ \E n \in Names, c \in {"/bin/zsh", "agent"} : NewSessionWithCommand(n, c)
    \/ \E n \in Names, c \in {"/bin/zsh", "agent"}, e \in EnvMaps : NewSessionWithCommandAndEnv(n, c, e)
    \/ \E n \in Names : KillSession(n)
    \/ \E n \in Names : KillSessionWithProcesses(n)
    \/ \E n \in Names : HasSession(n)
    \/ \E n \in Names : IsAgentAlive(n)
    \/ \E n \in Names, e \in 1..Len(ExpectedLists) : IsAgentRunning(n, e)
    \/ \E n \in Names, t \in Thresholds : CheckSessionHealth(n, t)
    \/ \E n \in Names : SendKeys(n)
    \/ \E n \in Names : AgentExit(n)
    \/ \E n \in Names : IdleTick(n)
    \/ \E n \in Names : Activity(n)
    \/ DaemonStop
    \/ DaemonStart

Spec == Init /\ [][Next]_vars

(***************************************************************************)
(* SpecNudge: concurrent NudgeSession calls, with sessions being created   *)
(* and killed under them.  SpecLock: concurrent direct callers of the lock.*)
(***************************************************************************)
NextNudge ==
    \/ \E p \in Procs, n \in Names : NudgeCall(p, n)
    \/ \E p \in Procs : NudgeAcquired(p)
    \/ \E p \in Procs : NudgeTimeout(p)
    \/ \E p \in Procs : NudgeSendKeys(p)
    \/ \E p \in Procs : NudgeReturn(p)
    \/ Tick
    \/ \E n \in Names : NewSession(n)
    \/ \E n \in Names : KillSession(n)

SpecNudge == Init /\ [][NextNudge]_vars

NextLock ==
    \/ \E p \in Procs, n \in Names, t \in 1..MaxTimeout : AcquireCall(p, n, t)
    \/ \E p \in Procs : AcquireTrue(p)
    \/ \E p \in Procs : AcquireFalse(p)
    \/ \E p \in Procs, n \in Names : ReleaseCall(p, n)
    \/ \E p \in Procs : ReleaseDone(p)
    \/ Tick

SpecLock == Init /\ [][NextLock]_vars

(***************************************************************************)
(* SpecStart: concurrent Manager.Start invocations on either backend,      *)
(* while the hosted process may exit and another actor may kill the        *)
(* session.                                                                *)
(***************************************************************************)
InitStartEither ==
    /\ InitDaemon /\ flaky = FALSE /\ InitLocks /\ InitWrap
    /\ backendKind \in {"amux", "tmux"}
    /\ spc = [s \in Starters |-> "idle"]
    /\ sret = [s \in Starters |-> "none"]
    /\ senv = [s \in Starters |-> NoSources]

NextStart ==
    \/ \E s \in Starters : StartForeground(s)
    \/ \E s \in Starters : StartCall(s, AgentEnv, NoEnv)
    \/ \E s \in Starters : StartHasSession(s)
    \/ \E s \in Starters : StartIsAgentAlive(s)
    \/ \E s \in Starters : StartKillZombie(s)
    \/ \E s \in Starters : StartConfig(s, NoEnv)
    \/ \E s \in Starters : StartCreate(s)
    \/ \E s \in Starters : StartSetEnvironment(s)
    \/ \E s \in Starters : StartExtras(s)
    \/ \E s \in Starters : StartWaitFailed(s)
    \/ \E n \in Names : AgentExit(n)
    \/ \E n \in Names : KillSession(n)

SpecStart == InitStartEither /\ [][NextStart]_vars

(***************************************************************************)
(* SpecFaults: one caller driving the adapter against a daemon that stops  *)
(* and starts, through a CLI that may also fail for reasons of its own.    *)
(***************************************************************************)
InitFaults == InitDaemon /\ flaky = TRUE /\ InitLocks /\ InitStart /\ InitWrap

NextFaults ==
    \/ \E n \in Names : NewSession(n)
    \/ \E n \in Names : KillSession(n)
    \/ \E n \in Names : HasSession(n)
    \/ ListSessionInfo
    \/ ListSessions
    \/ \E n \in Names : AgentExit(n)
    \/ DaemonStop
    \/ DaemonStart

SpecFaults == InitFaults /\ [][NextFaults]_vars

(***************************************************************************)
(* SpecWrap: wrapError applied to every stderr text, process error and     *)
(* subcommand of the bounded sets.                                         *)
(***************************************************************************)
\* stderr texts: the phrases the text contains, "other" for further text and
\* " " for white space around it
NextWrap ==
    \E e \in {"exit status 1", "signal: killed"},
       t \in SUBSET (Phrases \cup {"other", " "}),
       a \in {<<"new", "-t", "w">>, <<"ls", "--json">>} : WrapErrorCall(e, t, a)

SpecWrap == Init /\ [][NextWrap]_vars

(***************************************************************************)
(* SpecGap: one caller driving the adapter that lacks `send` and `env`,    *)
(* on sessions that are created, lose their hosted process and are killed. *)
(***************************************************************************)
NextGap ==
    \/ \E n \in Names, t \in {"hello", "ls"} : UnsupportedSendKeys(n, t)
    \/ \E n \in Names, k \in Keys, v \in Values : UnsupportedSetEnvironment(n, k, v)
    \/ \E n \in Names, k \in Keys : UnsupportedGetEnvironment(n, k)
    \/ \E n \in Names : NewSession(n)
    \/ \E n \in Names : KillSession(n)
    \/ \E n \in Names : AgentExit(n)

SpecGap == Init /\ [][NextGap]_vars

(***************************************************************************)
(* SpecBuildEnv: buildEnv applied to every process environment and overlay *)
(* of the bounded sets.  The strings of os.Environ() have distinct names;  *)
(* a string may lack "=" and a value may contain "=".                      *)
(***************************************************************************)
Environs ==
    {e \in UNION {[1..n -> {<<"HOME", "=", "/root">>, <<"PATH", "=", "/bin">>,
                            <<"K", "=", "old">>, <<"OPT", "=", "a", "=", "b">>,
                            <<"junk">>}] : n \in 0..MaxEnviron} :
        \A i, j \in 1..Len(e) : i # j => SplitN(e[i])[1] # SplitN(e[j])[1]}

NextBuildEnv ==
    \E e \in Environs, o \in UNION {[K -> {"v", "/custom"}] : K \in SUBSET {"K", "PATH"}} :
        BuildEnvCall(e, o)

SpecBuildEnv == Init /\ [][NextBuildEnv]_vars

(***************************************************************************)
(* Backend selection (session.NewBackend, session.BackendName).            *)
(***************************************************************************)
\* the values GT_SESSION_BACKEND is given, as sequences of characters; the
\* empty sequence is what os.Getenv returns for a variable that is not set
BackendValues ==
    { <<>>, <<"a", "m", "u", "x">>, <<"A", "M", "U", "X">>, <<"A", "m", "u", "x">>,
      <<"a", "m", "u", "X">>, <<"t", "m", "u", "x">>, <<"T", "M", "U", "X">>,
      <<"a", "m", "u">>, <<"a", "m", "u", "x", " ">>, <<"a", "m", "u", "x", "2">>,
      <<"x">> }

\* strings.ToLower: unicode.ToLower of each character of the model
ToLower(str) ==
    [i \in 1..Len(str) |->
        CASE str[i] = "A" -> "a"
          [] str[i] = "M" -> "m"
          [] str[i] = "U" -> "u"
          [] str[i] = "X" -> "x"
          [] str[i] = "T" -> "t"
          [] OTHER -> str[i]]

\* BackendName returns "amux" or "tmux" based on GT_SESSION_BACKEND
BackendName ==
    IF ToLower(osEnv) = <<"a", "m", "u", "x">> THEN "amux" ELSE "tmux"

\* NewBackend returns the amux backend or the tmux backend
NewBackend ==
    IF BackendName = "amux" /\ amuxFactory THEN "amux" ELSE "tmux"

\* the environment gives GT_SESSION_BACKEND a value, or unsets it
Setenv(v) ==
    /\ osEnv' = v
    /\ ret' = NoRet
    /\ UNCHANGED <<daemonVars, lockVars, startVars, wcall, args, cerr, benv, amuxFactory>>

\* RegisterAmuxFactory(factory); a nil factory is f = FALSE
RegisterAmuxFactory(f) ==
    /\ amuxFactory' = f
    /\ ret' = NoRet
    /\ UNCHANGED <<daemonVars, lockVars, startVars, wcall, args, cerr, benv, osEnv>>

\* a call of BackendName; ret.status is the name returned
BackendNameCall ==
    /\ ret' = Ret("BackendName", "", 0, FALSE, BackendName, "nil")
    /\ UNCHANGED <<daemonVars, lockVars, startVars, callVars>>

\* a call of NewBackend; the backend returned becomes the one in use
NewBackendCall ==
    /\ backendKind' = NewBackend
    /\ ret' = Ret("NewBackend", "", 0, FALSE, NewBackend, "nil")
    /\ UNCHANGED <<daemonVars, lockVars, spc, sret, senv, callVars>>

\* the process starts with no factory registered (package-level var)
InitBackend ==
    /\ InitDaemon /\ flaky = FALSE /\ InitLocks /\ InitStart
    /\ wcall = NoCall
    /\ args = <<>>
    /\ cerr = NoErr
    /\ benv = [called |-> FALSE, environ |-> <<>>, env |-> NoEnv, result |-> {}]
    /\ osEnv \in BackendValues
    /\ amuxFactory = FALSE

NextBackend ==
    \/ \E v \in BackendValues : Setenv(v)
    \/ \E f \in BOOLEAN : RegisterAmuxFactory(f)
    \/ BackendNameCall
    \/ NewBackendCall

SpecBackend == InitBackend /\ [][NextBackend]_vars

(***************************************************************************)
(* SpecFrame: two NudgeSession callers on one session running concurrently *)
(* with every other operation of the backend on that and another session.  *)
(***************************************************************************)
\* the goroutines that call NudgeSession
FrameCallers == {1, 2}

NextFrame ==
    \/ \E p \in FrameCallers : NudgeCall(p, "w")
    \/ \E p \in FrameCallers : NudgeAcquired(p)
    \/ \E p \in FrameCallers : NudgeTimeout(p)
    \/ \E p \in FrameCallers : NudgeSendKeys(p)
    \/ \E p \in FrameCallers : NudgeReturn(p)
    \/ Tick
    \/ \E n \in Names : NewSession(n)
    \/ \E n \in Names : KillSession(n)
    \/ \E n \in Names : KillSessionWithProcesses(n)
    \/ \E n \in Names : HasSession(n)
    \/ ListSessions
    \/ \E n \in Names : SendKeys(n)
    \/ \E n \in Names : CapturePane(n)
    \/ \E n \in Names : SetEnvironment(n, 1, "witness")
    \/ \E n \in Names : GetEnvironment(n, 1)
    \/ \E n \in Names : IsAgentAlive(n)
    \/ \E n \in Names : IsAgentRunning(n, 1)
    \/ \E n \in Names : CheckSessionHealth(n, 0)

SpecFrame == Init /\ [][NextFrame]_vars

(***************************************************************************)
(* SpecNudgeLive: NudgeSession callers on one session, with callers of     *)
(* acquireNudgeLock that take the lock and never release it.  Fairness: a  *)
(* select proceeds when one of its cases is ready, SendKeys returns, the   *)
(* deferred release runs, and time passes.                                 *)
(***************************************************************************)
NextNudgeLive ==
    \/ \E p \in FrameCallers : NudgeCall(p, sessionID)
    \/ \E p \in FrameCallers : NudgeAcquired(p)
    \/ \E p \in FrameCallers : NudgeTimeout(p)
    \/ \E p \in FrameCallers : NudgeSendKeys(p)
    \/ \E p \in FrameCallers : NudgeReturn(p)
    \/ \E p \in FrameCallers, t \in 1..MaxTimeout : AcquireCall(p, sessionID, t)
    \/ \E p \in FrameCallers : AcquireTrue(p)
    \/ \E p \in FrameCallers : AcquireFalse(p)
    \/ Tick
    \/ NewSession(sessionID)
    \/ KillSession(sessionID)

SpecNudgeLive ==
    /\ Init /\ [][NextNudgeLive]_vars
    /\ SF_vars(Tick)
    /\ \A p \in FrameCallers :
          /\ WF_vars(NudgeAcquired(p) \/ NudgeTimeout(p))
          /\ WF_vars(AcquireTrue(p) \/ AcquireFalse(p))
          /\ WF_vars(NudgeSendKeys(p))
          /\ WF_vars(NudgeReturn(p))

(***************************************************************************)
(* SpecManageFaults: one caller of Manager.Start, Stop and Status on       *)
(* either backend, through a CLI that may also fail for reasons of its     *)
(* own, while the hosted process may exit.                                 *)
(***************************************************************************)
InitManageFaults ==
    /\ InitDaemon /\ flaky = TRUE /\ InitLocks /\ InitWrap
    /\ backendKind \in {"amux", "tmux"}
    /\ spc = [s \in Starters |-> "idle"]
    /\ sret = [s \in Starters |-> "none"]
    /\ senv = [s \in Starters |-> NoSources]

NextManageFaults ==
    \/ StartCall(1, AgentEnv, NoEnv)
    \/ StartHasSession(1)
    \/ StartIsAgentAlive(1)
    \/ StartKillZombie(1)
    \/ StartConfig(1, NoEnv)
    \/ StartCreate(1)
    \/ StartSetEnvironment(1)
    \/ StartExtras(1)
    \/ StartWaitFailed(1)
    \/ StopCall(1)
    \/ StopHasSession(1)
    \/ StopKill(1)
    \/ StatusCall(1)
    \/ StatusHasSession(1)
    \/ StatusInfo(1)
    \/ AgentExit(sessionID)

SpecManageFaults == InitManageFaults /\ [][NextManageFaults]_vars

(***************************************************************************)
(* SpecHealth: two callers of Manager.Start on either backend beside       *)
(* Manager.IsRunning and Manager.IsHealthy queries, on a session that goes *)
(* idle, shows activity, loses its hosted process or is killed by another  *)
(* actor.                                                                  *)
(***************************************************************************)
HealthStarters == {1, 2}

NextHealth ==
    \/ \E s \in HealthStarters : StartCall(s, AgentEnv, NoEnv)
    \/ \E s \in HealthStarters : StartHasSession(s)
    \/ \E s \in HealthStarters : StartIsAgentAlive(s)
    \/ \E s \in HealthStarters : StartKillZombie(s)
    \/ \E s \in HealthStarters : StartConfig(s, NoEnv)
    \/ \E s \in HealthStarters : StartCreate(s)
    \/ \E s \in HealthStarters : StartSetEnvironment(s)
    \/ \E s \in HealthStarters : StartExtras(s)
    \/ \E s \in HealthStarters : StartWaitFailed(s)
    \/ IsRunning
    \/ \E t \in 0..MaxIdle : IsHealthy(t)
    \/ IdleTick(sessionID)
    \/ Activity(sessionID)
    \/ AgentExit(sessionID)
    \/ KillSession(sessionID)

SpecHealth == InitStartEither /\ [][NextHealth]_vars

(***************************************************************************)
(* SpecHealthFaults: one caller of CheckSessionHealth through a CLI that   *)
(* may fail for reasons of its own or print output that is no JSON, on     *)
(* sessions that are created, go idle, lose their hosted process and are   *)
(* killed, with the daemon stopping and starting.                          *)
(***************************************************************************)
NextHealthFaults ==
    \/ \E n \in Names, t \in Thresholds : CheckSessionHealth(n, t)
    \/ \E n \in Names : NewSessionWithCommand(n, "agent")
    \/ \E n \in Names : KillSession(n)
    \/ \E n \in Names : AgentExit(n)
    \/ \E n \in Names : IdleTick(n)
    \/ DaemonStop
    \/ DaemonStart

SpecHealthFaults == InitFaults /\ [][NextHealthFaults]_vars

(***************************************************************************)
(* SpecEnv: one caller setting and getting environment variables of        *)
(* sessions that are created and killed, with the daemon stopping and      *)
(* starting.                                                               *)
(***************************************************************************)
NextEnv ==
    \/ \E n \in Names, i \in 1..Len(KeyList), v \in Values \cup {" polecat "} :
          SetEnvironment(n, i, v)
    \/ \E n \in Names, i \in 1..Len(KeyList) : GetEnvironment(n, i)
    \/ \E n \in Names : NewSession(n)
    \/ \E n \in Names : KillSession(n)
    \/ DaemonStop
    \/ DaemonStart

SpecEnv == Init /\ [][NextEnv]_vars

(***************************************************************************)
(* SpecManage: concurrent Manager.Stop and Manager.Status invocations on   *)
(* either backend, on a session that is created, goes idle, loses its      *)
(* hosted process or is killed by another actor, with the daemon stopping  *)
(* and starting.                                                           *)
(***************************************************************************)
NextManage ==
    \/ \E s \in Starters : StopCall(s)
    \/ \E s \in Starters : StopHasSession(s)
    \/ \E s \in Starters : StopKill(s)
    \/ \E s \in Starters : StatusCall(s)
    \/ \E s \in Starters : StatusHasSession(s)
    \/ \E s \in Starters : StatusInfo(s)
    \/ \E n \in Names : NewSessionWithCommand(n, "agent")
    \/ \E n \in Names : KillSession(n)
    \/ \E n \in Names : AgentExit(n)
    \/ \E n \in Names : IdleTick(n)
    \/ DaemonStop
    \/ DaemonStart

SpecManage == InitStartEither /\ [][NextManage]_vars

(***************************************************************************)
(* SpecStartEnv: one Manager.Start invocation at a time on either backend, *)
(* with every combination of the three environment sources, while the      *)
(* hosted process may exit and another actor may kill the session.         *)
(***************************************************************************)
NextStartEnv ==
    \/ \E b \in EnvMaps, o \in EnvMaps : StartCall(1, b, o)
    \/ StartHasSession(1)
    \/ StartIsAgentAlive(1)
    \/ StartKillZombie(1)
    \/ \E r \in EnvMaps : StartConfig(1, r)
    \/ StartCreate(1)
    \/ StartSetEnvironment(1)
    \/ StartExtras(1)
    \/ StartWaitFailed(1)
    \/ \E n \in Names : AgentExit(n)
    \/ \E n \in Names : KillSession(n)

SpecStartEnv == InitStartEither /\ [][NextStartEnv]_vars

(***************************************************************************)
(* Claims checked under Spec.                                              *)
(***************************************************************************)
CreateOps == {"NewSession", "NewSessionWithCommand", "NewSessionWithCommandAndEnv"}

\* C4: CheckSessionHealth classifies in strict priority order: no session ->
\* SessionDead; session whose hosted process is not alive -> AgentDead; alive,
\* threshold > 0 and idle > threshold -> AgentHung; otherwise SessionHealthy.
\* A threshold <= 0 never gives AgentHung; idle = threshold is SessionHealthy.
C4_HealthPriority ==
    ret.op = "CheckSessionHealth" =>
        /\ ret.status =
              IF ~Exists(ret.name) THEN "SessionDead"
              ELSE IF ~sessions[ret.name].alive THEN "AgentDead"
              ELSE IF ret.arg > 0 /\ sessions[ret.name].idle > ret.arg THEN "AgentHung"
              ELSE "SessionHealthy"
        /\ (ret.arg <= 0 => ret.status # "AgentHung")
        /\ (Exists(ret.name) /\ sessions[ret.name].alive /\ sessions[ret.name].idle = ret.arg
                => ret.status = "SessionHealthy")

\* C4 witness: a live session idle for exactly the positive threshold has
\* been classified
C4_Witness ==
    /\ ret.op = "CheckSessionHealth" /\ ret.arg > 0
    /\ Exists(ret.name) /\ sessions[ret.name].alive
    /\ sessions[ret.name].idle = ret.arg
    /\ ret.status = "SessionHealthy"

\* C5: for a name that was never created, and for one created and then
\* destroyed, HasSession returns false with no error and CheckSessionHealth
\* returns SessionDead, whatever happened to other sessions.
C5_AbsentIsDead ==
    (ret.op \in {"HasSession", "CheckSessionHealth"} /\ ~Exists(ret.name)) =>
        /\ (ret.op = "HasSession" => ret.val = FALSE /\ ret.err = "nil")
        /\ (ret.op = "CheckSessionHealth" => ret.status = "SessionDead")

\* C5 witness: HasSession answers for a session that was created and then
\* destroyed while another session still exists
C5_Witness ==
    /\ ret.op = "HasSession" /\ ~Exists(ret.name)
    /\ ret.name \in everCreated /\ daemonUp
    /\ \E m \in Names : Exists(m)

\* C6: a create (any of the three) for a name that denotes a live session
\* fails with SessionExists and leaves the daemon's sessions unchanged.
C6_DuplicateCreate ==
    [][(ret'.op \in CreateOps /\ Exists(ret'.name)) =>
          (ret'.err = "ErrSessionExists" /\ sessions' = sessions)]_vars

\* C6 witness: NewSessionWithCommandAndEnv was refused for an existing session
C6_Witness ==
    /\ ret.op = "NewSessionWithCommandAndEnv" /\ ret.err = "ErrSessionExists"
    /\ Exists(ret.name)


\* C22: IsAgentRunning returns true exactly when the session exists, its
\* hosted process is alive and, if expected substrings were given, the
\* hosted command string contains at least one of them; it returns false for
\* a session that does not exist and when the daemon cannot be asked.
C22_IsAgentRunning ==
    ret.op = "IsAgentRunning" =>
        /\ ret.val <=>
              /\ Exists(ret.name) /\ sessions[ret.name].alive
              /\ \/ Len(ExpectedLists[ret.arg]) = 0
                 \/ \E i \in 1..Len(ExpectedLists[ret.arg]) :
                       Contains(sessions[ret.name].command, ExpectedLists[ret.arg][i])
        /\ (~daemonUp \/ ~Exists(ret.name)) => ~ret.val

\* C22 witness: for a live session whose command contains none of the
\* expected substrings IsAgentRunning returned false
C22_Witness ==
    /\ ret.op = "IsAgentRunning" /\ ~ret.val
    /\ Exists(ret.name) /\ sessions[ret.name].alive
    /\ Len(ExpectedLists[ret.arg]) = 2

Holders(n) == {p \in Procs : psess[p] = n /\ pc[p] \in {"n_send", "n_defer"}}

\* C1: for every session, at most one NudgeSession call is between its lock
\* acquisition and its release, so two SendKeys deliveries to one session
\* never overlap.
C1_OneHolder == \A n \in Names : Cardinality(Holders(n)) <= 1

\* C1 witness: one call delivers to a session while another call for the same
\* session has been waiting for the lock
C1_Witness ==
    \E p, q \in Procs :
        /\ pc[p] = "n_send" /\ pc[q] = "n_select"
        /\ psess[p] = psess[q] /\ waited[q] > 0

\* C8: a lock is held only on behalf of a call that is still running: once
\* every call that acquired it has returned (SendKeys failed or not), the
\* session's lock is free.
C8_ReleasedOnReturn ==
    \A n \in DOMAIN sessionNudgeLocks :
        chanLen[sessionNudgeLocks[n]] > 0 => Holders(n) # {}

\* C8 witness: a call whose SendKeys failed has returned and no lock is held
C8_Witness ==
    \E p \in Procs :
        /\ pc[p] = "idle" /\ pret[p] = "ErrSessionNotFound"
        /\ DOMAIN chanLen # {}
        /\ \A c \in DOMAIN chanLen : chanLen[c] = 0

\* C9: when NudgeSession's acquisition times out, it returns the lock-timeout
\* error naming the session, the registry and every lock stay as they were
\* (a caller that holds the session's lock still holds it and goes on), and
\* nothing is sent to the daemon.
C9_TimeoutLeavesLock ==
    [][\A p \in Procs :
          (pc[p] = "n_select" /\ pc'[p] = "idle") =>
              /\ pret'[p] = "nudge lock timeout for session " \o psess[p]
              /\ chanLen' = chanLen
              /\ sessionNudgeLocks' = sessionNudgeLocks
              /\ \A q \in Holders(psess[p]) :
                    q # p /\ pc'[q] = pc[q] /\ chanLen'[psem[q]] = 1
              /\ sessions' = sessions /\ ret' = ret]_vars

\* C9 witness: a call for "w" returned the lock-timeout error while another
\* call still delivers to "w"
C9_Witness ==
    \E p, q \in Procs :
        /\ pc[p] = "idle" /\ pret[p] = "nudge lock timeout for session w"
        /\ pc[q] = "n_send" /\ psess[q] = "w"
        /\ chanLen[psem[q]] = 1

\* C10: a call waits (time passes while it is in its select) only while
\* another call holds the lock of the same session, and it fails with the
\* lock timeout only after waiting nudgeLockTimeout that way: a lock held for
\* one session never blocks or fails a call for another.
C10_LocksIndependent ==
    [][\A p \in Procs :
          pc[p] = "n_select" =>
              /\ (waited'[p] > waited[p] => \E q \in Holders(psess[p]) : q # p)
              /\ (pc'[p] = "idle" => waited[p] >= nudgeLockTimeout)]_vars

\* C10 witness: two calls are delivering at the same time, to different sessions
C10_Witness ==
    \E p, q \in Procs :
        /\ pc[p] = "n_send" /\ pc[q] = "n_send"
        /\ psess[p] # psess[q]

(***************************************************************************)
(* Claims checked under SpecLock.                                          *)
(***************************************************************************)
\* C7: acquire returns true only when the lock is free; time passes for a
\* waiting acquire only while the lock is held, and acquire returns false
\* only when its whole (positive) timeout has passed that way.  So an acquire
\* on a held lock returns false once the timeout elapses, and an acquire that
\* starts after the release succeeds.
C7_AcquireWhileHeld ==
    [][\A p \in Procs :
          pc[p] = "select" =>
              /\ (pc'[p] = "idle" /\ pret'[p] = "false" =>
                    ptimeout[p] >= 1 /\ waited[p] >= ptimeout[p])
              /\ (waited'[p] > waited[p] => chanLen[psem[p]] = 1)
              /\ (pc'[p] = "idle" /\ pret'[p] = "true" =>
                    chanLen[psem[p]] = 0 /\ chanLen'[psem[p]] = 1)]_vars

\* C7 witness: an acquire has returned false, the lock it wanted being held
\* since, and after a release another acquire of the same lock returned true
C7_Witness ==
    \E p, q \in Procs :
        /\ p # q
        /\ pc[p] = "idle" /\ pret[p] = "false"
        /\ pc[q] = "idle" /\ pret[q] = "true"
        /\ \E c \in DOMAIN chanLen : chanLen[c] = 1

\* C11: release never blocks (its select can always run) and never errors;
\* it frees the slot if it is held and changes nothing if it is not, so after
\* any number of releases the lock is free and holds at most one element: a
\* later acquire succeeds once.
C11_ReleaseIdempotent ==
    /\ [](\A p \in Procs : pc[p] = "release" => ENABLED ReleaseDone(p))
    /\ [][/\ \A c \in DOMAIN chanLen' : chanLen'[c] \in {0, 1}
          /\ \A p \in Procs :
                (pc[p] = "release" /\ pc'[p] = "idle") =>
                    /\ pret'[p] = "released" /\ ret'.err = "nil"
                    /\ chanLen'[psem[p]] = 0
                    /\ (chanLen[psem[p]] = 0 => chanLen' = chanLen)
                    /\ \A c \in DOMAIN chanLen \ {psem[p]} : chanLen'[c] = chanLen[c]
                    /\ sessionNudgeLocks' = sessionNudgeLocks]_vars

\* C11 witness: the last release found the lock free (a release of a lock
\* that was not held), and an acquire after it succeeded: the lock is held
C11_Witness ==
    /\ ret.op = "releaseNudgeLock" /\ ret.arg = 0
    /\ ret.name \in DOMAIN sessionNudgeLocks
    /\ chanLen[sessionNudgeLocks[ret.name]] = 1
    /\ \E p \in Procs : pc[p] = "idle" /\ pret[p] = "true"

(***************************************************************************)
(* Claims checked under SpecStart.                                         *)
(***************************************************************************)
Zombie(n) == daemonUp /\ Exists(n) /\ ~sessions[n].alive
Healthy(n) == daemonUp /\ Exists(n) /\ sessions[n].alive

\* C2: on every backend, a Start that finds the session existing with its
\* hosted process not alive goes on to destroy it (and then to recreate it)
\* and does not return AlreadyRunning.
C2_ZombieRecovered ==
    [][\A s \in Starters :
          (spc[s] = "alive" /\ spc'[s] # "alive" /\ Zombie(sessionID)) =>
              (spc'[s] = "kill" /\ sret'[s] # "ErrAlreadyRunning")]_vars

\* C3: a Start that finds the session existing and healthy fails with
\* AlreadyRunning; neither of its probes destroys or creates anything: the
\* session is left as it is.
C3_HealthyNotRestarted ==
    [][\A s \in Starters :
          /\ (spc[s] = "has" /\ spc'[s] # "has" /\ Healthy(sessionID)) =>
                (spc'[s] = "alive" /\ sessions' = sessions)
          /\ (spc[s] = "alive" /\ spc'[s] # "alive" /\ Healthy(sessionID)) =>
                (spc'[s] = "idle" /\ sret'[s] = "ErrAlreadyRunning"
                 /\ sessions' = sessions)]_vars

\* C3 witness: a Start has returned AlreadyRunning and the session is healthy
C3_Witness ==
    \E s \in Starters :
        /\ spc[s] = "idle" /\ sret[s] = "ErrAlreadyRunning"
        /\ Healthy(sessionID)

\* C14: when the readiness wait after the creation fails, Start does not go
\* on: it destroys the session with its process tree and returns an error;
\* when that Start has returned, the session does not exist.
C14_ReadinessFailure ==
    [][\A s \in Starters :
          /\ (spc[s] = "extras" /\ spc'[s] # "extras" /\ hasTmuxExtras
                 /\ ~tmuxWaitForCommand(sessionID)) =>
                (spc'[s] = "waitkill" /\ sret'[s] # "nil")
          /\ (spc[s] = "waitkill" /\ spc'[s] # "waitkill") =>
                /\ spc'[s] = "idle"
                /\ sret'[s] = "waiting for witness to start"
                /\ sessionID \notin DOMAIN sessions']_vars

\* C14 witness: on tmux a Start has returned the readiness error for a
\* session that had been created, and the session does not exist
C14_Witness ==
    \E s \in Starters :
        /\ backendKind = "tmux"
        /\ spc[s] = "idle" /\ sret[s] = "waiting for witness to start"
        /\ sessionID \in everCreated /\ ~Exists(sessionID)

(***************************************************************************)
(* Claims checked under SpecStartEnv.                                      *)
(***************************************************************************)
\* C15: whatever the SetEnvironment calls return (success, a failure, not
\* implemented), Start goes on to the same next step with the same result so
\* far, and the session it created is left as it is, running.
C15_EnvNotFatal ==
    [][\A s \in Starters :
          (spc[s] = "env" /\ spc'[s] # "env") =>
              /\ spc'[s] = "extras" /\ sret'[s] = sret[s]
              /\ DOMAIN sessions' = DOMAIN sessions
              /\ Exists(sessionID) =>
                    /\ sessions'[sessionID].alive = sessions[sessionID].alive
                    /\ sessions'[sessionID].command = sessions[sessionID].command]_vars

\* C15 witness: Start has returned nil although SetEnvironment is not
\* implemented, and the session is running
C15_Witness ==
    \E s \in Starters :
        /\ spc[s] = "idle" /\ sret[s] = "nil"
        /\ ret.op = "SetEnvironment" /\ ret.err = "ErrNotImplemented"
        /\ Healthy(sessionID)

C12_StopUnconditional ==
    [][\A s \in Starters :
          /\ (spc[s] = "stop_has" /\ spc'[s] # "stop_has") =>
                IF Exists(sessionID)
                THEN spc'[s] = "stop_kill"
                ELSE /\ spc'[s] = "idle" /\ sret'[s] = "ErrNotRunning"
                     /\ sessions' = sessions
          /\ (spc[s] = "stop_kill" /\ spc'[s] # "stop_kill") =>
                /\ spc'[s] = "idle"
                /\ Exists(sessionID) => sret'[s] = "nil"
                /\ sret'[s] = "nil" => sessionID \notin DOMAIN sessions'
                /\ \A n \in Names \ {sessionID} :
                      Exists(n) => n \in DOMAIN sessions' /\ sessions'[n] = sessions[n]]_vars

\* C12 witness: a Stop has returned nil after destroying a session whose
\* hosted process was dead and that had been idle; the session does not exist
C12_Witness ==
    \E s \in Starters :
        /\ spc[s] = "idle" /\ sret[s] = "nil"
        /\ ret.op = "Stop" /\ ret.err = "nil" /\ ~ret.val /\ ret.arg > 0
        /\ ~Exists(sessionID)

\* C13: Status returns NotRunning when the session is absent; when it exists
\* a backend other than tmux gives the descriptor that carries only the
\* name, and tmux goes on to its rich descriptor; no step of Status changes
\* the daemon or its sessions.
C13_StatusDescriptor ==
    [][\A s \in Starters :
          /\ (spc[s] = "status_has" /\ spc'[s] # "status_has") =>
                /\ sessions' = sessions /\ daemonUp' = daemonUp
                /\ IF ~Exists(sessionID)
                   THEN spc'[s] = "idle" /\ sret'[s] = "ErrNotRunning"
                   ELSE IF backendKind = "tmux"
                   THEN spc'[s] = "status_info"
                   ELSE spc'[s] = "idle" /\ sret'[s] = "SessionInfo{Name: w}"
          /\ (spc[s] = "status_info" /\ spc'[s] # "status_info") =>
                /\ sessions' = sessions /\ daemonUp' = daemonUp
                /\ spc'[s] = "idle"
                /\ Exists(sessionID) => sret'[s] = "SessionInfo{Name: w, ...}"]_vars

\* C13 witness: on amux a Status has returned the name-only descriptor of a
\* session that exists, and another has returned NotRunning before
C13_Witness ==
    \E s, t \in Starters :
        /\ backendKind = "amux"
        /\ spc[s] = "idle" /\ sret[s] = "SessionInfo{Name: w}"
        /\ spc[t] = "idle" /\ sret[t] = "ErrNotRunning"
        /\ Exists(sessionID)

(***************************************************************************)
(* Claims checked under SpecFaults.                                        *)
(***************************************************************************)
\* C17: HasSession never returns an error, and it returns true exactly when
\* the probe exited with status 0: not-found, an unreachable daemon and any
\* other failure all give false.
C17_HasSessionNoError ==
    ret.op = "HasSession" => (ret.err = "nil" /\ (ret.val <=> ret.arg = 0))

\* C17 witness: the probe failed although the daemon runs and hosts the
\* session, and HasSession returned false with no error
C17_Witness ==
    /\ ret.op = "HasSession" /\ ret.arg # 0
    /\ daemonUp /\ Exists(ret.name)
    /\ ~ret.val /\ ret.err = "nil"

\* C20: a listing that met BackendUnavailable returns an empty list and no
\* error; one that met any other error returns that error; one that could
\* not parse the output returns the parsing error; otherwise it returns the
\* sessions and no error.
C20_ListingSwallowsNoDaemon ==
    ret.op \in {"ListSessions", "ListSessionInfo"} =>
        /\ ret.status = "ErrNoDaemon" => (ret.err = "nil" /\ ret.arg = 0)
        /\ ret.status \notin {"nil", "ErrNoDaemon", "unparsable"} => ret.err = ret.status
        /\ ret.status = "unparsable" => ret.err = "amux ls: parsing JSON"
        /\ ret.status = "nil" =>
              (ret.err = "nil" /\ ret.arg = Cardinality(DOMAIN sessions))

\* C20 witness: ListSessions returned an empty list and no error from a
\* daemon that is down after it hosted a session
C20_Witness ==
    /\ ret.op = "ListSessions" /\ ret.status = "ErrNoDaemon"
    /\ ~daemonUp /\ everCreated # {}
    /\ ret.err = "nil" /\ ret.arg = 0

(***************************************************************************)
(* Claims checked under SpecWrap.                                          *)
(***************************************************************************)
\* C18: wrapError classifies by the first group of phrases that stderr
\* contains: a daemon-unreachable phrase gives ErrNoDaemon whatever else is
\* there; else "already exists" gives ErrSessionExists; else "not found" or
\* "no such session" gives ErrSessionNotFound.
C18_FirstMatchWins ==
    wcall.result.is # "none" =>
        /\ DaemonPhrases \cap wcall.stderr # {} => wcall.result.is = "ErrNoDaemon"
        /\ (DaemonPhrases \cap wcall.stderr = {} /\ "already exists" \in wcall.stderr)
              => wcall.result.is = "ErrSessionExists"
        /\ (DaemonPhrases \cap wcall.stderr = {} /\ "already exists" \notin wcall.stderr
               /\ NotFoundPhrases \cap wcall.stderr # {})
              => wcall.result.is = "ErrSessionNotFound"

\* C18 witness: a stderr with a daemon phrase, "already exists" and "not
\* found" was classified as ErrNoDaemon
C18_Witness ==
    /\ {"connection refused", "already exists", "not found"} \subseteq wcall.stderr
    /\ wcall.result.is = "ErrNoDaemon"

\* C19: wrapError never returns nil; for a stderr with none of the phrases
\* it returns an untyped error: with the subcommand and the stderr text
\* (white space around it trimmed) when that text is not empty, and wrapping
\* the process error when it is empty.
C19_UntypedError ==
    wcall.result.is # "none" =>
        /\ wcall.result.is \in Sentinels \cup {"untyped"}
        /\ Phrases \cap wcall.stderr = {} =>
              /\ wcall.result.is = "untyped"
              /\ wcall.result.sub = wcall.args[1]
              /\ TrimSpace(wcall.stderr) # {} =>
                    wcall.result.stderr = TrimSpace(wcall.stderr)
              /\ TrimSpace(wcall.stderr) = {} => wcall.result.wraps = wcall.err

\* C19 witness: a stderr of white space only gave an error that wraps the
\* process error
C19_Witness ==
    /\ wcall.result.is = "untyped" /\ wcall.stderr = {" "}
    /\ wcall.result.wraps = wcall.err /\ wcall.err = "signal: killed"

(***************************************************************************)
(* Claims checked under SpecGap.                                           *)
(***************************************************************************)
UnsupportedOps ==
    {"SendKeys (unsupported)", "SetEnvironment (unsupported)", "GetEnvironment (unsupported)"}

\* C21: on the adapter without keystroke and environment support, SendKeys,
\* SetEnvironment and GetEnvironment fail with a capability-unavailable
\* error for every session and argument, and the error names the operation
\* and each of its arguments: for SendKeys the session and the text.
C21_CapabilityGap ==
    ret.op \in UnsupportedOps =>
        /\ ret.err \in {"ErrSendKeysNotSupport", "ErrNotImplemented"}
        /\ cerr.is = ret.err
        /\ cerr.op \o " (unsupported)" = ret.op
        /\ \A i \in 1..Len(args) : \E j \in 1..Len(cerr.args) : cerr.args[j] = args[i]

(***************************************************************************)
(* Claims checked under SpecBuildEnv.                                      *)
(***************************************************************************)
\* the name of a string of the result: what precedes its first "="
NameOf(e) == SubSeq(e, 1, IndexEq(e) - 1)

\* C24: the result of buildEnv has K=v for every overlay entry, has every
\* inherited NAME=value whose name is not overlaid, has for an overlaid name
\* only the overlay's value, and has every name exactly once.
C24_BuildEnvOverlay ==
    benv.called =>
    /\ \A k \in DOMAIN benv.env : <<k, "=", benv.env[k]>> \in benv.result
    /\ \A i \in 1..Len(benv.environ) :
          IndexEq(benv.environ[i]) # 0 =>
              IF \E k \in DOMAIN benv.env : NameOf(benv.environ[i]) = <<k>>
              THEN benv.environ[i] \notin benv.result
              ELSE benv.environ[i] \in benv.result
    /\ \A e1, e2 \in benv.result : NameOf(e1) = NameOf(e2) => e1 = e2
    /\ \A e \in benv.result : IndexEq(e) # 0

\* C24 witness: PATH was inherited and overlaid, HOME was inherited only
C24_Witness ==
    /\ benv.called /\ "PATH" \in DOMAIN benv.env
    /\ \E i, j \in 1..Len(benv.environ) :
          /\ benv.environ[i] = <<"PATH", "=", "/bin">>
          /\ benv.environ[j] = <<"HOME", "=", "/root">>
    /\ <<"PATH", "=", benv.env["PATH"]>> \in benv.result
    /\ <<"HOME", "=", "/root">> \in benv.result
    /\ <<"PATH", "=", "/bin">> \notin benv.result

(***************************************************************************)
(* Claims checked under SpecEnv.                                           *)
(***************************************************************************)
\* C25: GetEnvironment(s, k) returns the value the session has for k, which
\* is the value v of the last successful SetEnvironment(s, k, v): a
\* successful set gives k the value v in s and changes no other key of s and
\* no other session, and nothing but a successful set on s changes a
\* variable of s while s exists.  (Violated: GetEnvironment returns the
\* value with leading and trailing white space removed.)
C25_EnvLastWriteWins ==
    /\ [](ret.op = "GetEnvironment" /\ Exists(ret.name)
            /\ KeyList[ret.arg] \in DOMAIN sessions[ret.name].env
          => ret.err = "nil" /\ ret.status = sessions[ret.name].env[KeyList[ret.arg]])
    /\ [][/\ (ret'.op = "SetEnvironment" /\ ret'.err = "nil") =>
               /\ DOMAIN sessions' = DOMAIN sessions /\ Exists(ret'.name)
               /\ KeyList[ret'.arg] \in DOMAIN sessions'[ret'.name].env
               /\ sessions'[ret'.name].env[KeyList[ret'.arg]] = ret'.status
               /\ \A k \in DOMAIN sessions'[ret'.name].env \ {KeyList[ret'.arg]} :
                     /\ k \in DOMAIN sessions[ret'.name].env
                     /\ sessions'[ret'.name].env[k] = sessions[ret'.name].env[k]
               /\ \A m \in DOMAIN sessions \ {ret'.name} : sessions'[m] = sessions[m]
          /\ \A n \in DOMAIN sessions \cap DOMAIN sessions' :
               sessions'[n].env # sessions[n].env =>
                   (ret'.op = "SetEnvironment" /\ ret'.err = "nil" /\ ret'.name = n)]_vars

(***************************************************************************)
(* Claims checked under SpecBackend.                                        *)
(***************************************************************************)
\* C26: NewBackend returns the amux backend when GT_SESSION_BACKEND is
\* "amux" and the tmux backend for every other value, including unset.
\* (Violated: "AMUX" and "Amux" select amux; "amux" with no factory
\* registered selects tmux.)
C26_BackendSelection ==
    ret.op = "NewBackend" =>
        /\ osEnv = <<"a", "m", "u", "x">> => ret.status = "amux" /\ backendKind = "amux"
        /\ osEnv # <<"a", "m", "u", "x">> => ret.status = "tmux" /\ backendKind = "tmux"

(***************************************************************************)
(* Claims checked under SpecFrame.                                          *)
(***************************************************************************)
\* C27: every step of an operation other than NudgeSession (a step that
\* moves no NudgeSession caller) leaves the nudge lock registry and every
\* lock's held/free state unchanged; in particular a destroy neither
\* removes nor releases the lock of the session it destroys.
C27_RegistryFrame ==
    [][pc' = pc =>
          /\ sessionNudgeLocks' = sessionNudgeLocks
          /\ chanLen' = chanLen]_vars

\* C27 witness: KillSession destroyed a session whose lock a NudgeSession
\* caller holds, and the lock is still registered and held
C27_Witness ==
    /\ ret.op = "KillSession" /\ ret.err = "nil" /\ ~Exists(ret.name)
    /\ ret.name \in DOMAIN sessionNudgeLocks
    /\ chanLen[sessionNudgeLocks[ret.name]] = 1
    /\ \E p \in Procs : pc[p] = "n_send" /\ psess[p] = ret.name

(***************************************************************************)
(* Claims about the order of Start's steps and about concurrent Starts,    *)
(* checked under SpecStart.                                                *)
(***************************************************************************)
\* the place of a step in Start's code
StartRank(at) ==
    CASE at = "has"      -> 1
      [] at = "alive"    -> 2
      [] at = "kill"     -> 3
      [] at = "config"   -> 4
      [] at = "create"   -> 5
      [] at = "env"      -> 6
      [] at = "extras"   -> 7
      [] at = "waitkill" -> 8
      [] OTHER           -> 0

\* C28: an invocation of Start only moves forward through existence check,
\* liveness check, destroy of the zombie, configuration, create (so it takes
\* each of these steps at most once and never goes back to retry), it
\* reaches the destroy only from the liveness check, and a step of Start
\* destroys the session only at its destroy step (or at the cleanup after a
\* failed readiness wait) and creates it only at its create step.
C28_StartOrder ==
    [][\A s \in Starters :
          spc'[s] # spc[s] =>
             /\ spc'[s] = "idle" \/ StartRank(spc'[s]) > StartRank(spc[s])
             /\ spc'[s] = "kill" => spc[s] = "alive"
             /\ (Exists(sessionID) /\ sessionID \notin DOMAIN sessions')
                    => spc[s] \in {"kill", "waitkill"}
             /\ (~Exists(sessionID) /\ sessionID \in DOMAIN sessions')
                    => spc[s] = "create"]_vars

\* C28 witness: an invocation that checked, destroyed a zombie and then
\* created the session, the other caller never having run
C28_Witness ==
    /\ spc[1] = "env" /\ senv[1].killed /\ Healthy(sessionID)
    /\ spc[2] = "idle" /\ sret[2] = "none"

\* C29 as stated: whenever a Start's destroy step destroys the session, the
\* session is not healthy at that moment.
C29_NeverDestroysHealthy ==
    [][\A s \in Starters :
          (spc[s] = "kill" /\ spc'[s] # "kill"
             /\ Exists(sessionID) /\ sessionID \notin DOMAIN sessions')
          => ~Healthy(sessionID)]_vars

\* C29 as amended: a Start goes on to destroy only from its liveness probe
\* and only when the session is not healthy at the moment of that probe; a
\* Start whose liveness probe runs while the session is healthy returns
\* AlreadyRunning and leaves the session as it is.
C29_DestroyOnlyAfterProbe ==
    [][\A s \in Starters :
          /\ (spc'[s] = "kill" /\ spc[s] # "kill") =>
                (spc[s] = "alive" /\ ~Healthy(sessionID))
          /\ (spc[s] = "alive" /\ spc'[s] # "alive" /\ Healthy(sessionID)) =>
                (spc'[s] = "idle" /\ sret'[s] = "ErrAlreadyRunning"
                   /\ sessions' = sessions)]_vars

\* C29 witness: one Start is about to destroy, its probe having found the
\* session not healthy, and the session is healthy again because another
\* Start has created it since
C29_Witness ==
    /\ spc[1] = "kill" /\ Healthy(sessionID)
    /\ spc[2] \in {"env", "extras"}

\* C30 as stated: when two invocations both found no session and the create
\* of one has succeeded, the create of the other fails with SessionExists
\* wrapped as a creation error and changes nothing.
C30_OneCreateSucceeds ==
    [][\A s \in Starters :
          (spc[s] = "create" /\ spc'[s] # "create" /\ senv[s].raced) =>
             /\ sret'[s] = "creating session: ErrSessionExists"
             /\ sessions' = sessions]_vars

\* C30 as amended: a create of Start that finds the session existing fails
\* with SessionExists wrapped as a creation error and leaves the session as
\* it is; a create that finds no session creates it and goes on.  So after
\* one of two racing creates has succeeded the other fails, unless the
\* session has been destroyed in between.
C30_CreateSerialized ==
    [][\A s \in Starters :
          (spc[s] = "create" /\ spc'[s] # "create" /\ daemonUp) =>
             IF Exists(sessionID)
             THEN /\ spc'[s] = "idle"
                  /\ sret'[s] = "creating session: ErrSessionExists"
                  /\ sessions' = sessions
             ELSE /\ spc'[s] = "env"
                  /\ sessionID \in DOMAIN sessions'
                  /\ sessions'[sessionID].alive]_vars

\* C30 witness: of two invocations that both found no session one has
\* created it and the other has failed with the creation error
C30_Witness ==
    /\ spc[1] = "env" /\ senv[1].absent /\ Healthy(sessionID)
    /\ spc[2] = "idle" /\ sret[2] = "creating session: ErrSessionExists"

\* C31 as stated: a step of Start that fails makes Start return an error only
\* when it is the create or the readiness wait; the zombie destroy and every
\* other step continue.  (The guard results, foreground refused and
\* AlreadyRunning, are not failures of a step.)
C31_OnlyCreateAndWaitFatal ==
    [][\A s \in Starters :
          (spc[s] \notin {"idle", "alive"} /\ spc'[s] = "idle" /\ sret'[s] # "nil")
          => spc[s] \in {"create", "waitkill"}]_vars

\* C31 as amended: a failing step makes Start return an error when it is the
\* zombie destroy, the configuration (settings, role configuration, startup
\* command), the create or the readiness wait; applying the environment and,
\* once the readiness wait has succeeded or is not made, theming, dismissing
\* the bypass prompt and PID tracking never make Start fail.
C31_FatalSteps ==
    [][\A s \in Starters :
          /\ (spc[s] \notin {"idle", "alive"} /\ spc'[s] = "idle" /\ sret'[s] # "nil")
                => spc[s] \in {"kill", "config", "create", "waitkill"}
          /\ (spc[s] = "env" /\ spc'[s] # "env") => spc'[s] = "extras"
          /\ (spc[s] = "extras" /\ spc'[s] # "extras"
                 /\ (~hasTmuxExtras \/ tmuxWaitForCommand(sessionID)))
                => (spc'[s] = "idle" /\ sret'[s] = "nil")]_vars

\* C31 witness: a Start has returned nil although dismissing the bypass
\* prompt failed, and the session is running
C31_Witness ==
    \E s \in Starters :
        /\ spc[s] = "idle" /\ sret[s] = "nil"
        /\ ret.op = "Start.extras" /\ ret.status = "bypass"
        /\ Healthy(sessionID)

\* C32: whenever an invocation of Start returns, with nil or with an error,
\* the session is absent or its hosted process is alive: no zombie is left.
\* (Violated: on amux a zombie makes Start return AlreadyRunning, and a
\* process that exits during the settle delay is left behind a nil.)
C32_NoHalfAlive ==
    [][\A s \in Starters :
          (spc[s] # "idle" /\ spc'[s] = "idle") =>
              (sessionID \in DOMAIN sessions' => sessions'[sessionID].alive)]_vars

\* C33: on the backend without the extended capabilities (amux) a Start
\* that has created the session applies the environment, waits the settle
\* delay and returns nil, whether or not the hosted process is alive then;
\* no step after the create destroys the session, and Start never reaches
\* the cleanup of a failed readiness wait.
C33_NoReadinessCheck ==
    /\ [](backendKind = "amux" => \A s \in Starters : spc[s] # "waitkill")
    /\ [][\A s \in Starters :
            backendKind = "amux" =>
               /\ (spc[s] = "env" /\ spc'[s] # "env") =>
                     (spc'[s] = "extras" /\ DOMAIN sessions' = DOMAIN sessions)
               /\ (spc[s] = "extras" /\ spc'[s] # "extras") =>
                     (spc'[s] = "idle" /\ sret'[s] = "nil" /\ sessions' = sessions)]_vars

\* C33 witness: on amux a Start has returned nil and the session it created
\* is there with its hosted process dead
C33_Witness ==
    /\ backendKind = "amux"
    /\ spc[1] = "idle" /\ sret[1] = "nil"
    /\ spc[2] = "idle" /\ sret[2] = "none"
    /\ Zombie(sessionID)

(***************************************************************************)
(* Claims checked under SpecNudgeLive.                                      *)
(***************************************************************************)
\* the results a NudgeSession call can return: what SendKeys returned, or
\* the lock-timeout error
NudgeResults ==
    {sendKeys(r) : r \in {Ok(NoSession), Fail({"not found"}), Fail({"daemon not running"})}}
        \cup {"nudge lock timeout for session " \o sessionID}

\* C34: every NudgeSession call returns: a caller blocked in the select
\* leaves it, by acquiring the lock or by the timeout, and a caller that
\* has acquired the lock returns what its one SendKeys returned; a caller
\* returns the lock-timeout error only from the select, with the timeout
\* elapsed.  This holds also when a holder never releases the lock.
C34_NudgeTerminates ==
    /\ \A p \in FrameCallers :
          (pc[p] \in {"n_select", "n_send", "n_defer"}) ~> (pc[p] = "idle")
    /\ [][\A p \in FrameCallers :
            /\ (pc[p] = "n_select" /\ pc'[p] = "idle") =>
                  /\ pret'[p] = "nudge lock timeout for session " \o sessionID
                  /\ waited[p] >= nudgeLockTimeout
            /\ (pc[p] = "n_select" /\ pc'[p] # pc[p]) => pc'[p] \in {"idle", "n_send"}
            /\ (pc[p] = "n_send" /\ pc'[p] # pc[p]) => pc'[p] = "n_defer"
            /\ (pc[p] = "n_defer" /\ pc'[p] # pc[p]) =>
                  (pc'[p] = "idle" /\ pret'[p] = pret[p] /\ pret'[p] \in NudgeResults)]_vars

\* C34 witness: a NudgeSession call has returned the lock-timeout error
\* while the lock is held by a caller of acquireNudgeLock that has returned
\* and does not release it
C34_Witness ==
    /\ pc[1] = "idle" /\ pret[1] = "nudge lock timeout for session " \o sessionID
    /\ pc[2] = "idle" /\ pret[2] = "true"
    /\ sessionID \in DOMAIN sessionNudgeLocks
    /\ chanLen[sessionNudgeLocks[sessionID]] = 1

(***************************************************************************)
(* Claims about the lock registry, checked under SpecNudge.                *)
(***************************************************************************)
\* C35: the registry only grows and an entry is never removed or replaced;
\* a session that a call has referenced has an entry, distinct sessions
\* have distinct locks, each lock has one slot, and every call under way on
\* a session works on the lock registered for it, so calls that reference a
\* session for the first time concurrently obtain the same lock and at most
\* one of them holds it.
C35_RegistryMonotone ==
    /\ [](/\ \A n, m \in DOMAIN sessionNudgeLocks :
                n # m => sessionNudgeLocks[n] # sessionNudgeLocks[m]
          /\ \A c \in DOMAIN chanLen : chanLen[c] \in {0, 1}
          /\ \A p \in Procs :
                pc[p] # "idle" =>
                   /\ psess[p] \in DOMAIN sessionNudgeLocks
                   /\ psem[p] = sessionNudgeLocks[psess[p]]
          /\ \A n \in Names : Cardinality(Holders(n)) <= 1)
    /\ [][/\ DOMAIN sessionNudgeLocks \subseteq DOMAIN sessionNudgeLocks'
          /\ \A n \in DOMAIN sessionNudgeLocks :
                sessionNudgeLocks'[n] = sessionNudgeLocks[n]
          /\ DOMAIN chanLen \subseteq DOMAIN chanLen']_vars

\* C35 witness: two calls that both referenced a session for the first time
\* while the other was under way work on the same lock; one holds it and
\* the other waits
C35_Witness ==
    /\ pc[1] = "n_send" /\ pc[2] = "n_select"
    /\ psess[1] = "s2" /\ psess[2] = "s2" /\ psem[1] = psem[2]
    /\ DOMAIN sessionNudgeLocks = {"s2"}
    /\ chanLen[sessionNudgeLocks["s2"]] = 1

(***************************************************************************)
(* Claims checked under SpecManageFaults.                                  *)
(***************************************************************************)
\* C36: when the destroy of the zombie fails, Start returns at once with
\* that error wrapped, without going on to the creation, and the session is
\* as it was; only a destroy that succeeded lets Start go on.
C36_KillFailureFatal ==
    [][\A s \in Starters :
          (spc[s] = "kill" /\ spc'[s] # "kill") =>
             \/ /\ spc'[s] = "config"
                /\ sessionID \notin DOMAIN sessions'
                /\ Exists(sessionID)
             \/ /\ spc'[s] = "idle"
                /\ sret'[s] \in {"killing zombie session: " \o e :
                                   e \in {"ErrSessionNotFound", "ErrNoDaemon", "amux: stderr",
                                         "amux: exit status"}}
                /\ sessions' = sessions
                /\ everCreated' = everCreated]_vars

\* C36 witness: on tmux Start has returned the error of a destroy that
\* failed for a reason of the CLI's own, and the zombie is still there
C36_Witness ==
    /\ backendKind = "tmux"
    /\ spc[1] = "idle" /\ sret[1] = "killing zombie session: amux: stderr"
    /\ Zombie(sessionID)


\* a session with its hosted process alive whose idle time is above some
\* positive threshold
Hung(n) == Healthy(n) /\ \E t \in 1..MaxIdle : sessions[n].idle > t

\* C37: Start's guard and IsRunning agree on the same session state: when a
\* Start's liveness probe makes it fail with AlreadyRunning, IsRunning
\* reports true of the state the probe ran in, and when IsRunning reports
\* false of that state for a session that exists, the Start goes on to
\* destroy it.
C37_GuardAgreesWithIsRunning ==
    [][\A s \in HealthStarters :
          (spc[s] = "alive" /\ spc'[s] # "alive") =>
             /\ (sret'[s] = "ErrAlreadyRunning" => isRunning(Reply("info", sessionID)))
             /\ (~isRunning(Reply("info", sessionID)) /\ daemonUp /\ Exists(sessionID))
                   => spc'[s] = "kill"]_vars

\* the parts of C38 that hold as stated: whatever the idle time, a liveness
\* probe of Start that runs while the hosted process is alive makes Start
\* return AlreadyRunning, IsRunning reports such a session running, and
\* AgentHung is reported only by IsHealthy with a positive threshold.
C38_IdleIgnored ==
    /\ \A s \in HealthStarters :
          (spc[s] = "alive" /\ spc'[s] # "alive" /\ Healthy(sessionID)) =>
             (spc'[s] = "idle" /\ sret'[s] = "ErrAlreadyRunning" /\ sessions' = sessions)
    /\ (ret' # ret /\ ret'.op = "IsRunning" /\ Healthy(sessionID)) => ret'.val
    /\ (ret' # ret /\ ret'.status = "AgentHung") =>
          (ret'.op = "IsHealthy" /\ ret'.arg > 0 /\ Healthy(sessionID)
             /\ sessions[sessionID].idle > ret'.arg)

\* C38 as stated: idle time affects neither Start nor IsRunning, only
\* IsHealthy with a positive threshold reports AgentHung, and no destroy
\* step of Start destroys a hung session.
C38_IdleNeverMatters ==
    [][/\ C38_IdleIgnored
       /\ \A s \in HealthStarters :
             (spc[s] = "kill" /\ spc'[s] # "kill" /\ sessionID \notin DOMAIN sessions')
                => ~Hung(sessionID)]_vars

\* C38 as amended: idle time affects neither Start nor IsRunning, only
\* IsHealthy with a positive threshold reports AgentHung, and a Start goes on
\* to destroy only from a liveness probe that ran while the session was not
\* alive, whatever its idle time.
C38_IdleNeverDecides ==
    [][/\ C38_IdleIgnored
       /\ \A s \in HealthStarters :
             (spc'[s] = "kill" /\ spc[s] # "kill") =>
                (spc[s] = "alive" /\ ~Healthy(sessionID))]_vars

\* C38 witness: a Start has returned AlreadyRunning and IsRunning has just
\* answered true for a session that is hung
C38_Witness ==
    /\ Hung(sessionID)
    /\ spc[1] = "idle" /\ sret[1] = "ErrAlreadyRunning"
    /\ ret.op = "IsRunning" /\ ret.val

\* C39: CheckSessionHealth returns SessionDead whenever the session-info
\* query fails, for whatever reason (no daemon, an error wrapError does not
\* classify, output that does not parse); it never returns an error and
\* never changes the daemon's sessions.
C39_QueryFailureIsSessionDead ==
    [][/\ \A n \in Names, t \in Thresholds : \A r \in Replies("info", n) :
             getSessionInfo(r).err # "nil" => checkSessionHealth(r, t) = "SessionDead"
       /\ (ret' # ret /\ ret'.op = "CheckSessionHealth") =>
             /\ ret'.err = "nil"
             /\ UNCHANGED daemonVars
             /\ \E r \in Replies("info", ret'.name) :
                   /\ ret'.status = checkSessionHealth(r, ret'.arg)
                   /\ getSessionInfo(r).err # "nil" => ret'.status = "SessionDead"]_vars

\* C39 witness: CheckSessionHealth has returned SessionDead for a session
\* that exists with its hosted process alive
C39_Witness ==
    /\ ret.op = "CheckSessionHealth" /\ ret.status = "SessionDead"
    /\ Healthy(ret.name)

\* a step of s that is an existence probe returning an unexpected error
ProbeFailed(s, at) ==
    /\ spc[s] = at /\ spc'[s] # at
    /\ ret'.op = "HasSession" /\ ret'.err # "nil"

\* C40: when the existence probe fails with an unexpected error, Status
\* returns that failure as an error that is not NotRunning, Stop returns
\* NotRunning without going on to any destroy, and Start goes on towards
\* the creation of the session as if there were none.
C40_ProbeFailureDiffers ==
    [][\A s \in Starters :
          /\ ProbeFailed(s, "status_has") =>
                /\ spc'[s] = "idle" /\ sret'[s] = "checking session: " \o ret'.err
                /\ sret'[s] # "ErrNotRunning"
          /\ ProbeFailed(s, "stop_has") =>
                /\ spc'[s] = "idle" /\ sret'[s] = "ErrNotRunning"
                /\ sessions' = sessions
          /\ ProbeFailed(s, "has") =>
                /\ spc'[s] = "config" /\ sret'[s] = sret[s]
                /\ sessions' = sessions]_vars

\* C40 witness: Stop has returned NotRunning on a failed probe while the
\* session exists with its hosted process alive
C40_Witness ==
    /\ ret.op = "HasSession" /\ ret.err # "nil"
    /\ spc[1] = "idle" /\ sret[1] = "ErrNotRunning"
    /\ Healthy(sessionID)

====
